---- MODULE Spec2Model ----
(***************************************************************************)
(* A model of the route optimisation core of navix-ai:                     *)
(*   - app/engine/pareto.py   dominance, crowding distance, the archive    *)
(*   - app/engine/hacopso.py  the HACOPSO swarm engine                     *)
(*   - app/engine/genetic.py  the NSGA-II benchmark                        *)
(*   - app/services, app/api  the optimisation job and its cancellation    *)
(* Python indices are 0-based; the sequences below are 1-based, so the     *)
(* Python row r of an array is element r+1 here.                           *)
(***************************************************************************)
EXTENDS Integers, Sequences, FiniteSets, TLC

VARIABLES
    max_size,       \* ParetoArchiveManager.max_size
    solutions,      \* ParetoArchiveManager.solutions
    objectives,     \* ParetoArchiveManager.objectives
    metadata,       \* ParetoArchiveManager.metadata
    call,           \* the last archive call: its arguments, its return value and what it did
    dom,            \* the inputs and results of the last evaluation of dominates
    config,         \* HACOPSOEngine.config
    origin,         \* HACOPSOEngine.origin
    destination,    \* HACOPSOEngine.destination
    weights,        \* HACOPSOEngine.weights
    particles,      \* HACOPSOEngine.particles
    global_best,    \* HACOPSOEngine.global_best
    global_best_obj,      \* HACOPSOEngine.global_best_obj
    chaos_value,          \* HACOPSOEngine.chaos_value
    iteration,            \* HACOPSOEngine.iteration
    stagnation_count,     \* HACOPSOEngine.stagnation_count
    convergence_history,  \* HACOPSOEngine.convergence_history
    step,           \* the last engine call: its name, its argument and its random draws
    ocean,          \* the OceanGrid the objective function and the constraint handler query
    twin,           \* a second engine run on the same draws at another wall-clock time
    handler,        \* the ConstraintHandler: its max_fuel
    ga,             \* the GeneticAlgorithm of the benchmark: its fields and its last call
    heap,           \* the arrays of a HACOPSO engine as buffers, and which buffer each field names
    repair,         \* a call of repair_route: the caller's array, the working array, the result
    sorting,        \* a call of non_dominated_sort: its argument and the fronts it returned
    job,            \* the row of the optimization job in the database
    task,           \* the background task run_optimization: where it is and what optimize returned
    request         \* the DELETE /jobs/{job_id} request: where it is and its response

archiveVars == <<max_size, solutions, objectives, metadata, call>>
engineVars == <<config, origin, destination, weights, particles, global_best,
                global_best_obj, chaos_value, iteration, stagnation_count,
                convergence_history, step, ocean, handler, twin, ga, heap, repair,
                sorting, job, task, request>>
serviceVars == <<job, task, request>>
unitVars == <<heap, repair, sorting>>
vars == <<max_size, solutions, objectives, metadata, call, dom, config, origin,
          destination, weights, particles, global_best, global_best_obj, chaos_value,
          iteration, stagnation_count, convergence_history, step, ocean, handler,
          twin, ga, heap, repair, sorting, job, task, request>>

\* Python's None
None == <<>>

\* no function is called on its own
NoUnit ==
    /\ heap = None
    /\ repair = None
    /\ sorting = None

\* no job is run: the engine is called directly
NoService ==
    /\ job = None
    /\ task = None
    /\ request = None

\* no engine is constructed: the archive and dominates are exercised on their own
NoEngine ==
    /\ NoService
    /\ config = None
    /\ origin = None
    /\ destination = None
    /\ weights = None
    /\ particles = <<>>
    /\ global_best = None
    /\ global_best_obj = None
    /\ chaos_value = 0
    /\ iteration = 0
    /\ stagnation_count = 0
    /\ convergence_history = <<>>
    /\ step = None
    /\ ocean = None
    /\ handler = None
    /\ twin = None
    /\ ga = None
    /\ NoUnit

----------------------------------------------------------------------------
(* Bounds of the archive model *)

\* objective vectors offered to the archive have NumObj components ...
NumObj == 2
\* ... each in 0..MaxObjVal
MaxObjVal == 3
\* max_size is drawn from 1..MaxArchive
MaxArchive == 2
\* GAConfig.population_size of the runs of the genetic algorithm
PopulationSize == 2
\* GAConfig.max_generations of the runs of the genetic algorithm
MaxGenerations == 2

ObjVectors == [1..NumObj -> 0..MaxObjVal]

\* A metadata argument: None, or a dict given as a sequence of <<key, value>> pairs.
NoneMeta == [none |-> TRUE, dict |-> <<>>]
SomeMeta(d) == [none |-> FALSE, dict |-> d]

\* The calls offered to the archive, after TestParetoArchive.test_truncation: the
\* route [[0, 0], [i, j]] with the objective vector (i, j, ...), without
\* metadata when i = 0 and with its speeds otherwise ...
RouteOffer(obj) ==
    [sol |-> << <<0, 0>>, <<obj[1], obj[2]>> >>, obj |-> obj,
     meta |-> IF obj[1] = 0 THEN NoneMeta ELSE SomeMeta(<< <<"speeds", <<obj[1]>> >> >>)]
\* ... and a second route with the same objective vector
AltOffer(obj) ==
    [sol |-> << <<0, 0>>, <<obj[2], obj[1]>>, <<obj[1], obj[2]>> >>, obj |-> obj,
     meta |-> SomeMeta(<<>>)]
Offers == { RouteOffer(obj) : obj \in ObjVectors }
              \cup { AltOffer(obj) : obj \in { o \in ObjVectors : o[1] = 1 } }

----------------------------------------------------------------------------
(* pareto.py: pure functions *)

\* a mutant of dominates: the strictness test is dropped
dominatesWeak(a, b) == \A i \in DOMAIN a : a[i] <= b[i]

\* np.all(a <= b) and np.any(a < b)
dominates(a, b) ==
    /\ \A i \in DOMAIN a : a[i] <= b[i]
    /\ \E i \in DOMAIN a : a[i] < b[i]

RECURSIVE Fact(_)
Fact(n) == IF n <= 1 THEN 1 ELSE n * Fact(n - 1)

\* Crowding distances are sums of fractions (s[i+1] - s[i-1]) / range with
\* range in 1..MaxObjVal; they are held exactly, as multiples of 1/DistScale.
DistScale == Fact(MaxObjVal)

\* the longest array that is sorted: an archive about to be truncated, or
\* the parents and offspring of a generation of the genetic algorithm
MaxSorted ==
    IF MaxArchive + 1 > 2 * PopulationSize THEN MaxArchive + 1 ELSE 2 * PopulationSize

\* the permutations of 1..n, for every length that is sorted
PermTable ==
    [n \in 0..MaxSorted |->
        { p \in [1..n -> 1..n] : \A i, j \in 1..n : i # j => p[i] # p[j] }]
Perms(n) == PermTable[n]

\* np.argsort(vals) with the default kind (quicksort, not stable): an index
\* permutation that puts vals in ascending order; the order among equal
\* values is whatever the sort of the build produces.
ArgsortSet(vals) ==
    { p \in Perms(Len(vals)) : \A i \in 1..(Len(vals) - 1) : vals[p[i]] <= vals[p[i + 1]] }

\* the argsort a stable sort would return: equal values keep their index order
StableArgsort(vals) ==
    CHOOSE p \in ArgsortSet(vals) :
        \A i \in 1..(Len(vals) - 1) : vals[p[i]] = vals[p[i + 1]] => p[i] < p[i + 1]

Column(front, m) == [i \in 1..Len(front) |-> front[i][m]]

\* one choice of `indices` for every objective of the loop of crowding_distance
ArgsortChoices(front, nobj) ==
    LET sorts == [m \in 1..nobj |-> ArgsortSet(Column(front, m))]
    IN  { ps \in [1..nobj -> UNION { sorts[m] : m \in 1..nobj }] :
            \A m \in 1..nobj : ps[m] \in sorts[m] }

\* +inf as a distance: larger than every finite sum (each of the nobj terms is <= 1)
InfDist(nobj) == nobj * DistScale + 1

\* What the pass for objective m does to distances[k]: "inf" when k is
\* indices[0] or indices[-1], nothing when obj_range < 1e-10, otherwise
\* (sorted_values[i+1] - sorted_values[i-1]) / obj_range.
CrowdingTerm(front, m, indices, k) ==
    LET n == Len(front)
        sorted_values == [i \in 1..n |-> front[indices[i]][m]]
        obj_range == sorted_values[n] - sorted_values[1]
        i == CHOOSE i \in 1..n : indices[i] = k
    IN  IF i = 1 \/ i = n THEN [inf |-> TRUE, add |-> 0]
        ELSE IF obj_range = 0 THEN [inf |-> FALSE, add |-> 0]
        ELSE [inf |-> FALSE,
              add |-> ((sorted_values[i + 1] - sorted_values[i - 1]) * DistScale) \div obj_range]

RECURSIVE CrowdingSum(_, _, _, _)
CrowdingSum(front, m, ps, k) ==
    IF m = 0 THEN 0 ELSE CrowdingSum(front, m - 1, ps, k) + CrowdingTerm(front, m, ps[m], k).add

\* crowding_distance(front), given the argsort of each objective
crowding_distance(front, nobj, ps) ==
    LET n == Len(front)
    IN  IF n <= 2 THEN [k \in 1..n |-> InfDist(nobj)]
        ELSE [k \in 1..n |->
                IF \E m \in 1..nobj : CrowdingTerm(front, m, ps[m], k).inf
                THEN InfDist(nobj)
                ELSE CrowdingSum(front, nobj, ps, k)]

RECURSIVE CrowdingPasses(_, _)
\* distances after the passes of the loop of crowding_distance for the first
\* m objectives, for every choice of `indices` in each pass: what was set to
\* inf and the sum of the finite terms
CrowdingPasses(front, m) ==
    IF m = 0 THEN { [k \in 1..Len(front) |-> [inf |-> FALSE, add |-> 0]] }
    ELSE { [k \in 1..Len(front) |->
              [inf |-> prev[k].inf \/ CrowdingTerm(front, m, indices, k).inf,
               add |-> prev[k].add + CrowdingTerm(front, m, indices, k).add]] :
             prev \in CrowdingPasses(front, m - 1),
             indices \in ArgsortSet(Column(front, m)) }

\* the arrays crowding_distance(front) can return, over the orders in which
\* the sort may leave equal values
CrowdingDistances(front, nobj) ==
    IF Len(front) <= 2 THEN { [k \in 1..Len(front) |-> InfDist(nobj)] }
    ELSE { [k \in 1..Len(front) |-> IF d[k].inf THEN InfDist(nobj) ELSE d[k].add] :
             d \in CrowdingPasses(front, nobj) }

----------------------------------------------------------------------------
(* pareto.py: ParetoArchiveManager *)

\* a mutant of IsDominated: only the oldest entry is compared
IsDominatedFirstOnly(objs, obj) == Len(objs) > 0 /\ dominates(objs[1], obj)

\* add, lines 159-161: some archive member dominates the new vector
IsDominated(objs, obj) == \E i \in 1..Len(objs) : dominates(objs[i], obj)

RECURSIVE AscendingSeq(_, _)
\* the members of the index set S of 1..n, in ascending order
AscendingSeq(S, n) ==
    IF n = 0 THEN <<>>
    ELSE IF n \in S THEN Append(AscendingSeq(S, n - 1), n) ELSE AscendingSeq(S, n - 1)

\* a mutant of indices_to_keep: nothing is removed
indices_to_keep_all(objs, obj) == AscendingSeq(1..Len(objs), Len(objs))

\* add, lines 164-167
indices_to_keep(objs, obj) ==
    AscendingSeq({ i \in 1..Len(objs) : ~dominates(obj, objs[i]) }, Len(objs))

\* [lst[i] for i in indices]
Pick(lst, indices) == [j \in 1..Len(indices) |-> lst[indices[j]]]

\* metadata or {}
MetaOrEmpty(meta) == IF meta.none \/ meta.dict = <<>> THEN <<>> ELSE meta.dict

\* a mutant of TruncateIndices: the entries with the smallest distances are kept
TruncateIndicesAscending(distances, msize, order) ==
    LET rev == [j \in 1..Len(order) |-> order[Len(order) + 1 - j]]
    IN  SubSeq(rev, 1, msize)

\* _truncate, line 193: np.argsort(-distances)[: self.max_size], where order
\* is the argsort of -distances
TruncateIndices(distances, msize, order) == SubSeq(order, 1, msize)

Negated(distances) == [k \in 1..Len(distances) |-> 0 - distances[k]]

\* the index lists _truncate can keep, over the orders in which the sort may
\* leave equal distances
TruncateChoices(distances, msize) ==
    { TruncateIndices(distances, msize, order) : order \in ArgsortSet(Negated(distances)) }

\* a mutant of NeedsTruncate: the archive is never truncated
NeverTruncate(n, msize) == FALSE

\* add, line 179 and _truncate, line 186
NeedsTruncate(n, msize) == n > msize

NoCall == [op |-> "none", sol |-> <<>>, obj |-> <<>>, meta |-> NoneMeta, ret |-> FALSE,
           removed |-> 0, truncated |-> FALSE, front |-> <<>>, distances |-> <<>>,
           indices |-> <<>>]

\* a mutant of Appended: the new entry is put first
Prepended(lst, keep, x) == <<x>> \o Pick(lst, keep)

\* add, lines 169-176: the kept entries, then the new one
Appended(lst, keep, x) == Append(Pick(lst, keep), x)

\* An archive as a value: [max_size, solutions, objectives, metadata].
Archive(msize, sols, objs, metas) ==
    [max_size |-> msize, solutions |-> sols, objectives |-> objs, metadata |-> metas]

\* ParetoArchiveManager.add(solution, objective_values, metadata), _truncate
\* included: the set of pairs [archive, call] the call can end in (one, unless
\* the sorts of the truncation meet equal values).
AddOutcomes(arch, sol, obj, meta) ==
    LET args == [NoCall EXCEPT !.op = "add", !.sol = sol, !.obj = obj, !.meta = meta]
    IN  IF IsDominated(arch.objectives, obj)
        THEN { [archive |-> arch, call |-> [args EXCEPT !.ret = FALSE]] }
        ELSE LET keep == indices_to_keep(arch.objectives, obj)
                 sols == Appended(arch.solutions, keep, sol)
                 objs == Appended(arch.objectives, keep, obj)
                 metas == Appended(arch.metadata, keep, MetaOrEmpty(meta))
                 done == [args EXCEPT !.ret = TRUE,
                                      !.removed = Len(arch.objectives) - Len(keep)]
             IN  IF NeedsTruncate(Len(sols), arch.max_size)
                 THEN UNION {
                        { [archive |-> Archive(arch.max_size, Pick(sols, indices),
                                               Pick(objs, indices), Pick(metas, indices)),
                           call |-> [done EXCEPT !.truncated = TRUE,
                                                 !.front = [k \in 1..Len(objs) |->
                                                              <<sols[k], objs[k], metas[k]>>],
                                                 !.distances = distances,
                                                 !.indices = indices]] :
                            indices \in TruncateChoices(distances, arch.max_size) } :
                        distances \in CrowdingDistances(objs, Len(obj)) }
                 ELSE { [archive |-> Archive(arch.max_size, sols, objs, metas),
                         call |-> done] }

TheArchive == Archive(max_size, solutions, objectives, metadata)

SetArchive(arch) ==
    /\ max_size' = arch.max_size
    /\ solutions' = arch.solutions
    /\ objectives' = arch.objectives
    /\ metadata' = arch.metadata

NoDom == [applied |-> FALSE, a |-> <<>>, b |-> <<>>, c |-> <<>>,
          aa |-> FALSE, ab |-> FALSE, ba |-> FALSE, bc |-> FALSE, ac |-> FALSE]

\* ParetoArchiveManager(max_size): an empty archive
InitArchive ==
    /\ max_size \in 1..MaxArchive
    /\ solutions = <<>>
    /\ objectives = <<>>
    /\ metadata = <<>>
    /\ call = NoCall
    /\ dom = NoDom
    /\ NoEngine

\* a call of add by the archive's owner
AddCall ==
    /\ \E offer \in Offers :
         \E out \in AddOutcomes(TheArchive, offer.sol, offer.obj, offer.meta) :
            /\ SetArchive(out.archive)
            /\ call' = out.call
    /\ UNCHANGED dom
    /\ UNCHANGED engineVars

\* ParetoArchiveManager.clear()
ClearCall ==
    /\ Len(solutions) > 0
    /\ solutions' = <<>>
    /\ objectives' = <<>>
    /\ metadata' = <<>>
    /\ call' = [NoCall EXCEPT !.op = "clear"]
    /\ UNCHANGED <<max_size, dom>>
    /\ UNCHANGED engineVars

NextArchive == AddCall \/ ClearCall

SpecArchive == InitArchive /\ [][NextArchive]_vars

----------------------------------------------------------------------------
(* pareto.py: dominates as a relation on vectors *)

\* the vectors dominates is evaluated on have DomLen components in 0..DomMaxVal
DomLen == 2
DomMaxVal == 2
DomVectors == [1..DomLen -> 0..DomMaxVal]

InitDom ==
    /\ max_size = 1
    /\ solutions = <<>>
    /\ objectives = <<>>
    /\ metadata = <<>>
    /\ call = NoCall
    /\ \E a, b, c \in DomVectors : dom = [NoDom EXCEPT !.a = a, !.b = b, !.c = c]
    /\ NoEngine

\* dominates evaluated on the pairs of the three vectors
EvalDominates ==
    /\ ~dom.applied
    /\ dom' = [dom EXCEPT !.applied = TRUE,
                          !.aa = dominates(dom.a, dom.a),
                          !.ab = dominates(dom.a, dom.b),
                          !.ba = dominates(dom.b, dom.a),
                          !.bc = dominates(dom.b, dom.c),
                          !.ac = dominates(dom.a, dom.c)]
    /\ UNCHANGED archiveVars
    /\ UNCHANGED engineVars

NextDom == EvalDominates

SpecDom == InitDom /\ [][NextDom]_vars

----------------------------------------------------------------------------
(* Units of the engine model.  The program computes in float64; here every  *)
(* quantity is an integer multiple of a fixed step:                         *)
(*   coordinates and velocities   1/Deg degree                              *)
(*   numbers in [0, 1], inertia, c1, c2   1/FP                              *)
(*   objective values             1/ObjScale tonne, hour or score           *)
(*   weights                      1/WScale                                  *)
(*   fitness and weighted sums    1/(ObjScale * WScale)                     *)
Deg == 10
FP == 1000
ObjScale == 10
WScale == 10

Max(a, b) == IF a >= b THEN a ELSE b
Min(a, b) == IF a <= b THEN a ELSE b

\* x / y rounded toward zero, as int() rounds
Quot(x, y) == IF x >= 0 THEN x \div y ELSE 0 - ((0 - x) \div y)

\* np.clip(x, lo, hi)
Clip(x, lo, hi) == IF x < lo THEN lo ELSE IF x > hi THEN hi ELSE x

RECURSIVE SqrtBetween(_, _, _)
SqrtBetween(x, lo, hi) ==
    IF lo >= hi THEN lo
    ELSE LET mid == (lo + hi + 1) \div 2
         IN  IF mid * mid <= x THEN SqrtBetween(x, mid, hi) ELSE SqrtBetween(x, lo, mid - 1)

\* np.sqrt, rounded down
ISqrt(x) == SqrtBetween(x, 0, 46340)

\* np.sin(np.pi * x) for x in [0, 1], x and the result in 1/FP
\* (Bhaskara's rational approximation 16 x (1 - x) / (5 - 4 x (1 - x)))
SinPi(x) ==
    LET q == x * (FP - x)
    IN  (16 * q) \div ((5 * FP * FP - 4 * q) \div FP)

\* np.sin(t / 86400 * 2 * np.pi) for t in seconds, in 1/FP
SinDay(t) ==
    LET phase == ((t % 86400) * FP) \div 86400
    IN  IF 2 * phase <= FP THEN SinPi(2 * phase) ELSE 0 - SinPi(2 * phase - FP)

\* np.cos(np.radians(lat)) in 1/FP, by 1 - x^2 / 2 (x = lat * pi / 180)
CosLat(lat) == Max(0, FP - (lat * lat * FP) \div (6565 * Deg * Deg))

----------------------------------------------------------------------------
(* tests/test_hacopso.py: the ship of the test suite *)

service_speed == 14
min_speed == 8
max_speed == 18

\* MockShipProfile.calculate_fuel_consumption(speed, hours):
\* 0.5 * hours * (speed / service_speed) ** 3, hours in 1/100 h, result in 1/100 t
calculate_fuel_consumption(speed, hours) ==
    ((hours * speed * speed * speed) \div (service_speed * service_speed * service_speed)) \div 2

----------------------------------------------------------------------------
(* app/ocean/grid.py: OceanGrid() with its default data *)

\* 1 / resolution
CellsPerDeg == 2
lat_min == -60
lat_max == 70
lon_min == -180
lon_max == 180
n_lat == (lat_max - lat_min) * CellsPerDeg
n_lon == (lon_max - lon_min) * CellsPerDeg

\* _is_approximate_land(lat, lon)
IsApproximateLand(lat, lon) ==
    \/ /\ 25 * Deg < lat /\ lat < 70 * Deg /\ -130 * Deg < lon /\ lon < -60 * Deg
       /\ lat < 50 * Deg /\ lon > -100 * Deg
    \/ /\ -55 * Deg < lat /\ lat < 10 * Deg /\ -80 * Deg < lon /\ lon < -35 * Deg
    \/ /\ 35 * Deg < lat /\ lat < 70 * Deg /\ -10 * Deg < lon /\ lon < 40 * Deg
    \/ /\ -35 * Deg < lat /\ lat < 35 * Deg /\ -20 * Deg < lon /\ lon < 50 * Deg
    \/ /\ 10 * Deg < lat /\ lat < 70 * Deg /\ 40 * Deg < lon /\ lon < 150 * Deg
    \/ /\ -45 * Deg < lat /\ lat < -10 * Deg /\ 110 * Deg < lon /\ lon < 155 * Deg

\* _get_grid_indices(lat, lon)
GetGridIndices(lat, lon) ==
    LET i == Quot((lat - lat_min * Deg) * CellsPerDeg, Deg)
        j == Quot((lon - lon_min * Deg) * CellsPerDeg, Deg)
    IN  <<Max(0, Min(i, n_lat - 1)), Max(0, Min(j, n_lon - 1))>>

\* _land_mask[i, j]: the land test at the corner lat_min + i * resolution,
\* lon_min + j * resolution of the cell
LandMask(ij) ==
    IsApproximateLand(lat_min * Deg + (ij[1] * Deg) \div CellsPerDeg,
                      lon_min * Deg + (ij[2] * Deg) \div CellsPerDeg)

\* The depth, wave and current layers are drawn once from a seeded generator
\* (np.random.seed(42)); a fixed field with the same ranges stands for them:
\* depth 100..5000 m, waves 0.5..4.0 m (in 1/10 m), currents -0.5..0.5 m/s
\* (in 1/10 m/s), all 0 on land.
Depth(ij) == IF LandMask(ij) THEN 0 ELSE 100 + ((31 * ij[1] + 17 * ij[2]) % 4901)
WaveLayer(ij) == IF LandMask(ij) THEN 0 ELSE 5 + ((7 * ij[1] + 13 * ij[2]) % 36)
CurrentU(ij) == IF LandMask(ij) THEN 0 ELSE ((3 * ij[1] + 5 * ij[2]) % 11) - 5
CurrentV(ij) == IF LandMask(ij) THEN 0 ELSE ((5 * ij[1] + 3 * ij[2]) % 11) - 5

\* get_wave_height(lat, lon, time) for the cell of the position, in 1/10 m;
\* `if time:` is false at time 0
WaveAt(ij, time) ==
    IF time # 0 THEN Max(0, WaveLayer(ij) + Quot(SinDay(time) * 5, FP)) ELSE WaveLayer(ij)

\* get_current_vector(lat, lon, time) for the cell of the position, in 1/10 m/s
CurrentLayer(ij) == <<CurrentU(ij), CurrentV(ij)>>

\* get_resistance(lat, lon, time) = 1.0 + 0.1 * wave, in 1/100
Resistance(wave) == 100 + wave

\* add_storm_zone(lat, lon, radius, risk, valid_until): an entry of
\* _storm_zones, the place in 1/Deg degree and the risk in 1/1000;
\* valid_until 0 stands for None (both are false in `zone.get("valid_until")`)
StormZone(lat, lon, radius, risk, valid_until) ==
    [lat |-> lat, lon |-> lon, radius |-> radius, risk |-> risk, valid_until |-> valid_until]

\* OceanGrid(): no zone is added, and no query raises
DefaultOcean == [storm_zones |-> <<>>, raises |-> FALSE]

RECURSIVE StormLoop(_, _, _, _, _)
\* get_storm_risk, lines 143-149: the loop from zone k on, in 1/1000
StormLoop(zones, k, lat, lon, time) ==
    IF k > Len(zones) THEN 0
    ELSE LET zone == zones[k]
             d2 == (lat - zone.lat) * (lat - zone.lat) + (lon - zone.lon) * (lon - zone.lon)
         IN  IF d2 < zone.radius * zone.radius
                /\ ~(time # 0 /\ zone.valid_until # 0 /\ time > zone.valid_until)
             THEN (zone.risk * (zone.radius - ISqrt(d2))) \div zone.radius
             ELSE StormLoop(zones, k + 1, lat, lon, time)

\* get_storm_risk(lat, lon, time) of the ocean of the run, in 1/1000
get_storm_risk(lat, lon, time) == StormLoop(ocean.storm_zones, 1, lat, lon, time)

\* get_piracy_risk(lat, lon), in 1/1000: no piracy zone is added, so the loop
\* falls through
get_piracy_risk(lat, lon) == 0

----------------------------------------------------------------------------
(* app/engine/objectives.py: ObjectiveFunction(ship, OceanGrid(), departure_time) *)

departure_time == 0

\* The leg from (lat1, lon1) to (lat2, lon2) as a plane vector <<north, east,
\* length>>, the length in 1/10 of the coordinate step: the longitude
\* difference is shortened by the cosine of the middle latitude.
LegVector(lat1, lon1, lat2, lon2) ==
    LET dn == lat2 - lat1
        de == Quot((lon2 - lon1) * CosLat(Quot(lat1 + lat2, 2)), FP)
    IN  <<dn, de, ISqrt((dn * dn + de * de) * 100)>>

\* _haversine_nm(lat1, lon1, lat2, lon2) in 1/10 NM: 60 NM to the degree of arc
Haversine(leg) == (60 * leg[3]) \div Deg

\* _current_speed_effect(u, v, _calculate_heading(lat1, lon1, lat2, lon2)) in
\* 1/10 kt: the current (1 m/s = 1.944 kt) projected on the unit vector of
\* the heading; a leg of length 0 has heading 0 (north)
CurrentSpeedEffect(uv, leg) ==
    LET current_u_kt == Quot(uv[1] * 1944, 1000)
        current_v_kt == Quot(uv[2] * 1944, 1000)
    IN  IF leg[3] = 0 THEN current_v_kt
        ELSE Quot((current_u_kt * leg[2] + current_v_kt * leg[1]) * 10, leg[3])

\* the totals of evaluate before its loop: fuel in 1/100 t, time in 1/100 h,
\* risk in 1/1000, wave exposure in 1/10 m * 1/100 h, current_time in seconds
NoTotals == [fuel |-> 0, time |-> 0, risk |-> 0, wave |-> 0, current_time |-> departure_time]

\* evaluate, lines 134-137: leg_time, for the distance in 1/10 NM
LegTime(distance_nm, speed, current_effect) ==
    (distance_nm * 100) \div Max(10 * speed + current_effect, 10 * min_speed)

\* evaluate, lines 138-153: the totals after a leg
LegTotals(tot, speed, leg_time, resistance, risk, wave_height) ==
    [fuel |-> tot.fuel + (calculate_fuel_consumption(speed, leg_time) * resistance) \div 100,
     time |-> tot.time + leg_time,
     risk |-> tot.risk + (risk * leg_time) \div 2400,
     wave |-> tot.wave + wave_height * leg_time,
     current_time |-> tot.current_time + leg_time * 36]

\* evaluate, lines 119-153, for a leg, its midpoint and the indices of the
\* grid cell of the midpoint
SailLeg(tot, speed, leg, mid_lat, mid_lon, ij) ==
    LegTotals(tot, speed,
              LegTime(Haversine(leg), speed, CurrentSpeedEffect(CurrentLayer(ij), leg)),
              Resistance(WaveAt(ij, tot.current_time)),
              Max(get_storm_risk(mid_lat, mid_lon, tot.current_time),
                  get_piracy_risk(mid_lat, mid_lon)),
              WaveAt(ij, tot.current_time))

\* evaluate, lines 124-126: the midpoint of the leg
MidLeg(tot, speed, leg, mid_lat, mid_lon) ==
    SailLeg(tot, speed, leg, mid_lat, mid_lon, GetGridIndices(mid_lat, mid_lon))

\* evaluate, lines 113-153: the pass of the loop for leg i (rows i and i + 1)
EvaluateLeg(route, speeds, i, tot) ==
    MidLeg(tot, speeds[i],
           LegVector(route[i][1], route[i][2], route[i + 1][1], route[i + 1][2]),
           Quot(route[i][1] + route[i + 1][1], 2), Quot(route[i][2] + route[i + 1][2], 2))

RECURSIVE EvaluateLegs(_, _, _)
\* the totals after the first n legs
EvaluateLegs(route, speeds, n) ==
    IF n = 0 THEN NoTotals ELSE EvaluateLeg(route, speeds, n, EvaluateLegs(route, speeds, n - 1))

\* evaluate, lines 155-171, and to_array: [fuel, time, risk, emissions,
\* 1 - comfort] in 1/ObjScale
ObjectiveValues(tot) ==
    LET risk_score == Min(1000, tot.risk)
        avg_wave == tot.wave \div Max(tot.time, 100)
        comfort_score == Max(0, 1000 - avg_wave * 10)
        emissions == (tot.fuel * 3114) \div 1000
    IN  << (tot.fuel * ObjScale) \div 100,
           (tot.time * ObjScale) \div 100,
           (risk_score * ObjScale) \div 1000,
           (emissions * ObjScale) \div 100,
           ((1000 - comfort_score) * ObjScale) \div 1000 >>

\* float("inf"), as an objective value: larger than every value a route of
\* two or more rows can have, and equal to itself
Inf == 10000000

\* evaluate, lines 93-100, and to_array: the objectives of a route of fewer
\* than two rows
DegenerateValues == <<Inf, Inf, ObjScale, Inf, ObjScale>>

\* evaluate(route, speeds).to_array()
evaluate(route, speeds) ==
    IF Len(route) < 2 THEN DegenerateValues
    ELSE ObjectiveValues(EvaluateLegs(route, speeds, Len(route) - 1))

----------------------------------------------------------------------------
(* app/engine/constraints.py: ConstraintHandler(OceanGrid(), min_speed, max_speed) of the ship *)

LAND_PENALTY == 1000000
STORM_PENALTY == 10000
PIRACY_PENALTY == 1000
DEPTH_PENALTY == 100000
SPEED_PENALTY == 100
FUEL_PENALTY == 10000
min_depth == 15
handler_min_speed == min_speed
handler_max_speed == max_speed

\* ConstraintViolation(constraint_type, waypoint_index, severity); the
\* severity is in 1/1000 and waypoint_index is the 0-based index of the code
ConstraintViolation(type, index, severity) ==
    [constraint_type |-> type, waypoint_index |-> index, severity |-> severity]

\* check_route reads the clock when no time is passed (datetime.now()); the
\* value only reaches get_storm_risk
WallClock == 1700000000

\* check_route, lines 98-135: the violations of waypoint i (0-based) in the
\* grid cell ij, in the order of the checks
CellViolations(i, ij, storm_risk, piracy_risk) ==
    (IF LandMask(ij) THEN <<ConstraintViolation("land", i, 1000)>> ELSE <<>>)
    \o (IF Depth(ij) < min_depth
        THEN <<ConstraintViolation("depth", i,
                   Min(1000, ((min_depth - Depth(ij)) * 1000) \div min_depth))>>
        ELSE <<>>)
    \o (IF storm_risk > 800 THEN <<ConstraintViolation("storm", i, storm_risk)>> ELSE <<>>)
    \o (IF piracy_risk > 700 THEN <<ConstraintViolation("piracy", i, piracy_risk)>> ELSE <<>>)

WaypointViolations(route, i, time) ==
    CellViolations(i - 1, GetGridIndices(route[i][1], route[i][2]),
                   get_storm_risk(route[i][1], route[i][2], time),
                   get_piracy_risk(route[i][1], route[i][2]))

\* check_route, lines 139-153: the violation of leg i, if any
SpeedViolations(speeds, i) ==
    IF speeds[i] < handler_min_speed
    THEN <<ConstraintViolation("speed", i - 1,
               Min(1000, ((handler_min_speed - speeds[i]) * 1000) \div handler_min_speed))>>
    ELSE IF speeds[i] > handler_max_speed
    THEN <<ConstraintViolation("speed", i - 1,
               Min(1000, ((speeds[i] - handler_max_speed) * 1000) \div handler_max_speed))>>
    ELSE <<>>

RECURSIVE WaypointLoop(_, _, _)
WaypointLoop(route, n, time) ==
    IF n = 0 THEN <<>> ELSE WaypointLoop(route, n - 1, time) \o WaypointViolations(route, n, time)

RECURSIVE SpeedLoop(_, _)
SpeedLoop(speeds, n) ==
    IF n = 0 THEN <<>> ELSE SpeedLoop(speeds, n - 1) \o SpeedViolations(speeds, n)

\* max_fuel = None: no fuel budget
NoFuelLimit == 0 - 1
\* fuel_consumption = None: check_route is not told the fuel of the route
NotPassed == 0 - 1

\* ConstraintHandler(ocean_grid, min_depth, min_speed, max_speed, max_fuel);
\* max_fuel is in 1/ObjScale t, as the fuel objective
ConstraintHandler(max_fuel) == [max_fuel |-> max_fuel]

\* check_route, lines 156-163: the fuel violation, if any
FuelViolations(max_fuel, fuel_consumption) ==
    IF max_fuel # NoFuelLimit /\ fuel_consumption # NotPassed /\ fuel_consumption > max_fuel
    THEN <<ConstraintViolation("fuel", NotPassed,
               Min(1000, ((fuel_consumption - max_fuel) * 1000) \div max_fuel))>>
    ELSE <<>>

\* check_route(route, speeds, time, fuel_consumption) when the clock reads now
CheckRoute(route, speeds, now, fuel_consumption) ==
    WaypointLoop(route, Len(route), now) \o SpeedLoop(speeds, Len(speeds))
    \o FuelViolations(handler.max_fuel, fuel_consumption)

\* a mutant of check_route: the fuel of the route is passed
check_route_with_fuel(route, speeds, now) ==
    CheckRoute(route, speeds, now, evaluate(route, speeds)[1])

\* check_route(route, speeds), as the engines call it: without a time and
\* without a fuel consumption
check_route(route, speeds, now) == CheckRoute(route, speeds, now, NotPassed)

\* the weight calculate_penalty gives a violation
PenaltyWeight(type) ==
    CASE type = "land" -> LAND_PENALTY
      [] type = "depth" -> DEPTH_PENALTY
      [] type = "storm" -> STORM_PENALTY
      [] type = "piracy" -> PIRACY_PENALTY
      [] type = "speed" -> SPEED_PENALTY
      [] type = "fuel" -> FUEL_PENALTY

RECURSIVE PenaltySum(_, _)
PenaltySum(violations, n) ==
    IF n = 0 THEN 0
    ELSE PenaltySum(violations, n - 1)
         + (PenaltyWeight(violations[n].constraint_type) * violations[n].severity) \div 1000

\* calculate_penalty(violations), in whole penalty points
calculate_penalty(violations) == PenaltySum(violations, Len(violations))

\* a mutant of HasLand: no land violation is ever seen
NeverLand(violations) == FALSE

\* any(v.constraint_type == "land" for v in violations)
HasLand(violations) ==
    \E k \in 1..Len(violations) : violations[k].constraint_type = "land"

----------------------------------------------------------------------------
(* app/engine/hacopso.py: HACOPSOConfig and the helpers of HACOPSOEngine *)

\* swarm_size is MaxSwarm - 2 or MaxSwarm
MaxSwarm == 4
\* n_waypoints
NWaypoints == 1
\* max_iterations; iterate is called at most that often, as optimize does
MaxIterations == 3
\* stagnation_limit
StagnationLimit == 3

\* HACOPSOConfig(swarm_size, max_iterations, n_waypoints, stagnation_limit,
\* chaos_type), the other fields at their defaults
HACOPSOConfig(size, chaos) ==
    [swarm_size |-> size, max_iterations |-> MaxIterations, archive_size |-> 100,
     w_max |-> (9 * FP) \div 10, w_min |-> (4 * FP) \div 10, c1 |-> 2 * FP, c2 |-> 2 * FP,
     v_max_lat |-> 2 * Deg, opposition_rate |-> (3 * FP) \div 10, chaos_type |-> chaos,
     n_waypoints |-> NWaypoints, stagnation_limit |-> StagnationLimit]

\* np.dot(w, obj)
RECURSIVE DotUpTo(_, _, _)
DotUpTo(w, obj, n) == IF n = 0 THEN 0 ELSE DotUpTo(w, obj, n - 1) + w[n] * obj[n]
Dot(w, obj) == DotUpTo(w, obj, Len(obj))

\* np.dot(self.weights, obj_array) + penalty
Fitness(w, obj, penalty) == Dot(w, obj) + penalty * ObjScale * WScale

\* _get_bounds(): [[lat lo, lat hi], [lon lo, lon hi]]
GetBounds(o, d) ==
    << <<Min(o[1], d[1]) - 10 * Deg, Max(o[1], d[1]) + 10 * Deg>>,
       <<Min(o[2], d[2]) - 10 * Deg, Max(o[2], d[2]) + 10 * Deg>> >>

ClipPoint(pt, bounds) ==
    <<Clip(pt[1], bounds[1][1], bounds[1][2]), Clip(pt[2], bounds[2][1], bounds[2][2])>>

\* _generate_random_route(bounds), where noise is the value of
\* np.random.uniform(-5, 5, 2) for row i; route[-1] is assigned after
\* route[0], so a route of one row holds the destination
GenerateRandomRoute(cfg, o, d, bounds, noise) ==
    LET n_wp == cfg.n_waypoints
    IN  [r \in 1..(n_wp + 2) |->
           IF r = n_wp + 2 THEN d
           ELSE IF r = 1 THEN o
           ELSE LET i == r - 1
                    base == <<Quot(o[1] * (n_wp + 1 - i) + d[1] * i, n_wp + 1),
                              Quot(o[2] * (n_wp + 1 - i) + d[2] * i, n_wp + 1)>>
                IN  ClipPoint(<<base[1] + noise[i][1], base[2] + noise[i][2]>>, bounds)]

\* _opposition_route(route, bounds)
OppositionRoute(route, bounds) ==
    [r \in 1..Len(route) |->
       IF r = 1 \/ r = Len(route) THEN route[r]
       ELSE ClipPoint(<<bounds[1][1] + bounds[1][2] - route[r][1],
                        bounds[2][1] + bounds[2][2] - route[r][2]>>, bounds)]

Particle(position, velocity, speeds, personal_best, personal_best_obj, fitness) ==
    [position |-> position, velocity |-> velocity, speeds |-> speeds,
     personal_best |-> personal_best, personal_best_obj |-> personal_best_obj,
     fitness |-> fitness]

\* _create_particle, lines 114-119
RatedParticle(route, velocity, speeds, obj_array, violations, w) ==
    Particle(route, velocity, speeds, route, obj_array,
             Fitness(w, obj_array, calculate_penalty(violations)))

NewParticle(route, velocity, speeds, w, now) ==
    RatedParticle(route, velocity, speeds, evaluate(route, speeds),
                  check_route(route, speeds, now), w)

\* _create_particle(route), where vel is the value of the uniform draw for
\* every row of the velocity, sn the value of the uniform draw for every
\* leg speed and now the reading of the clock
CreateParticle(route, w, vel, sn, now) ==
    NewParticle(route, [r \in 1..Len(route) |-> vel],
                [k \in 1..(Len(route) - 1) |-> Clip(service_speed + sn, min_speed, max_speed)],
                w, now)

\* _chaotic_inertia_weight(): the new chaos_value and the inertia
ChaoticInertiaWeight(cfg, chaos, iter) ==
    LET mapped == CASE cfg.chaos_type = "logistic" -> (4 * chaos * (FP - chaos)) \div FP
                    [] cfg.chaos_type = "tent" ->
                         IF 2 * chaos < FP THEN 2 * chaos ELSE 2 * (FP - chaos)
                    [] OTHER -> SinPi(chaos)
        clipped == Clip(mapped, FP \div 100, (99 * FP) \div 100)
        base_w == cfg.w_max - ((cfg.w_max - cfg.w_min) * iter) \div cfg.max_iterations
    IN  [chaos_value |-> clipped, inertia |-> (base_w * (3 * FP + 2 * clipped)) \div (4 * FP)]

\* the least k with vals[k] minimal: np.argmin, and min(..., key=...)
ArgMin(vals) ==
    CHOOSE k \in 1..Len(vals) :
        /\ \A j \in 1..Len(vals) : vals[k] <= vals[j]
        /\ \A j \in 1..(k - 1) : vals[j] > vals[k]

\* ParetoArchiveManager.get_compromise(weights)[0] of a non-empty archive
get_compromise(arch, w) ==
    LET objs == arch.objectives
        nobj == Len(objs[1])
        obj_min == [m \in 1..nobj |-> objs[ArgMin(Column(objs, m))][m]]
        obj_max == [m \in 1..nobj |-> objs[ArgMin(Negated(Column(objs, m)))][m]]
        obj_range == [m \in 1..nobj |->
                        IF obj_max[m] - obj_min[m] = 0 THEN 1 ELSE obj_max[m] - obj_min[m]]
        normalized == [k \in 1..Len(objs) |->
                         [m \in 1..nobj |-> ((objs[k][m] - obj_min[m]) * FP) \div obj_range[m]]]
        scores == [k \in 1..Len(objs) |-> Dot(w, normalized[k])]
    IN  arch.solutions[ArgMin(scores)]

\* a mutant of IsBetter: every new position replaces the personal best
AlwaysBetter(fitness, w, best_obj) == TRUE

\* iterate, line 177, and _update_global_best, line 149: fitness < np.dot(weights, best_obj)
IsBetter(fitness, w, best_obj) == fitness < Dot(w, best_obj)

\* a mutant of UpdateGlobalBest: the counter is not reset
UpdateGlobalBestCounting(parts, w, gbest, gbest_obj, stagnation) ==
    LET best == parts[ArgMin([k \in 1..Len(parts) |-> parts[k].fitness])]
    IN  IF gbest = None \/ IsBetter(best.fitness, w, gbest_obj)
        THEN [global_best |-> best.personal_best,
              global_best_obj |-> best.personal_best_obj,
              stagnation_count |-> IF gbest = None THEN 0 ELSE stagnation + 1,
              replaced |-> TRUE]
        ELSE [global_best |-> gbest, global_best_obj |-> gbest_obj,
              stagnation_count |-> stagnation + 1, replaced |-> FALSE]

\* _update_global_best(): the new global_best, global_best_obj and
\* stagnation_count, and whether the global best was replaced
UpdateGlobalBest(parts, w, gbest, gbest_obj, stagnation) ==
    LET best == parts[ArgMin([k \in 1..Len(parts) |-> parts[k].fitness])]
    IN  IF gbest = None \/ IsBetter(best.fitness, w, gbest_obj)
        THEN [global_best |-> best.personal_best,
              global_best_obj |-> best.personal_best_obj,
              stagnation_count |-> 0, replaced |-> TRUE]
        ELSE [global_best |-> gbest, global_best_obj |-> gbest_obj,
              stagnation_count |-> stagnation + 1, replaced |-> FALSE]

----------------------------------------------------------------------------
(* app/engine/hacopso.py: initialize_swarm and iterate *)

\* a stored route as route_bank.get_warm_start_routes returns it: the
\* coordinates are given in tenths of a degree
Tenths(lat, lon) == <<(lat * Deg) \div 10, (lon * Deg) \div 10>>
BankRoute(first, inner, last) ==
    [r \in 1..(NWaypoints + 2) |->
       IF r = 1 THEN first ELSE IF r = NWaypoints + 2 THEN last ELSE inner]

\* the origin and destination of the engine: two points at sea east of Africa
Origin == Tenths(0, 510)
Destination == Tenths(0, 550)

\* a stored route of the same origin and destination
BankRouteSame == BankRoute(Origin, Tenths(20, 530), Destination)
\* a stored route of a nearby origin and destination (_find_nearby_routes
\* takes ports within 1 degree), with a waypoint inside the search box of
\* its own endpoints
BankRouteNear == BankRoute(Tenths(-5, 510), Tenths(-105, 530), Tenths(-8, 550))

\* the warm_start arguments of initialize_swarm
WarmStarts == {None, <<BankRouteNear>>, <<BankRouteSame, BankRouteNear>>}

\* The random draws of initialize_swarm: noise[k] is the value of
\* np.random.uniform(-5, 5, 2) in the k-th call of _generate_random_route, vel
\* the value drawn for the velocity rows and sn the value drawn for the leg
\* speeds in _create_particle.
NoiseWest == <<0 - 2 * Deg, 0 - 4 * Deg>>
NoiseEast == <<3 * Deg, 2 * Deg>>
NoisePattern(a, b) == [k \in 1..((MaxSwarm + 1) \div 2) |-> IF k % 2 = 1 THEN a ELSE b]
SwarmDraws ==
    { [noise |-> NoisePattern(NoiseWest, NoiseEast), vel |-> <<Deg, 0 - Deg>>, sn |-> -2],
      [noise |-> NoisePattern(NoiseEast, NoiseWest),
       vel |-> <<0 - (3 * Deg) \div 2, Deg \div 2>>, sn |-> 1],
      [noise |-> NoisePattern(NoiseEast, NoiseEast), vel |-> <<Deg, 0 - Deg>>, sn |-> 1] }

\* the values drawn for np.random.random(...) in iterate
RandomDraws == {0, FP \div 2}

\* the weights argument: the default, and all the weight on travel time
DefaultWeights == <<WScale \div 5, WScale \div 5, WScale \div 5, WScale \div 5, WScale \div 5>>
TimeWeights == <<0, WScale, 0, 0, 0>>

\* a destination on land (the box of Africa in _is_approximate_land)
LandDestination == Tenths(0, 490)

\* an ocean with a storm over the origin, risk 0.9 within 3 degrees
StormOcean ==
    [DefaultOcean EXCEPT !.storm_zones = <<StormZone(Origin[1], Origin[2], 3 * Deg, 900, 0)>>]

\* an ocean whose data cannot be read: every query of it raises
FaultyOcean == [DefaultOcean EXCEPT !.raises = TRUE]

\* An engine constructed: swarm_size, chaos_type, the value
\* np.random.random() leaves in chaos_value and the weights, and with them
\* n_waypoints, stagnation_limit, the destination and the ocean.
Setup(size, chaos, seed, w) ==
    [size |-> size, chaos |-> chaos, seed |-> seed, w |-> w, n_waypoints |-> NWaypoints,
     stagnation_limit |-> StagnationLimit, destination |-> Destination,
     ocean |-> DefaultOcean, max_fuel |-> NoFuelLimit]

\* a fuel budget of 10 t for ConstraintHandler(max_fuel)
FuelBudget == 10 * ObjScale

\* the engines of a usual configuration
UsualSetups ==
    { Setup(MaxSwarm, "logistic", (3 * FP) \div 10, DefaultWeights),
      Setup(MaxSwarm, "tent", (6 * FP) \div 10, TimeWeights),
      Setup(MaxSwarm, "sinusoidal", (3 * FP) \div 10, DefaultWeights),
      Setup(MaxSwarm - 2, "logistic", (6 * FP) \div 10, TimeWeights),
      Setup(MaxSwarm - 2, "tent", (3 * FP) \div 10, DefaultWeights),
      Setup(MaxSwarm - 2, "sinusoidal", 0, TimeWeights) }

\* the smallest engine: a swarm of two on the logistic map
SmallSetup == Setup(MaxSwarm - 2, "logistic", (3 * FP) \div 10, DefaultWeights)

\* engines of a particular kind: a storm on the way, an ocean that cannot be
\* read, a destination on land, a swarm of one, and the configurations no
\* engine should run with (no interior waypoint, a negative number of them,
\* an empty swarm)
SpecialSetups ==
    { [SmallSetup EXCEPT !.ocean = StormOcean],
      [SmallSetup EXCEPT !.max_fuel = FuelBudget],
      [SmallSetup EXCEPT !.ocean = FaultyOcean],
      [SmallSetup EXCEPT !.destination = LandDestination],
      [SmallSetup EXCEPT !.size = 1],
      [SmallSetup EXCEPT !.n_waypoints = 0],
      [SmallSetup EXCEPT !.n_waypoints = -1],
      [SmallSetup EXCEPT !.size = 0] }

EngineSetups == UsualSetups \cup SpecialSetups

\* HACOPSOConfig of a setup
SetupConfig(setup) ==
    [HACOPSOConfig(setup.size, setup.chaos) EXCEPT
        !.n_waypoints = setup.n_waypoints, !.stagnation_limit = setup.stagnation_limit]

\* a mutant of WarmRoutes: every warm-start route is taken
AllWarmRoutes(cfg, warm) == IF warm = None THEN <<>> ELSE warm

\* initialize_swarm, lines 136-138: warm_start[:swarm_size // 4]
WarmRoutes(cfg, warm) ==
    IF warm = None \/ warm = <<>> THEN <<>>
    ELSE SubSeq(warm, 1, Min(Len(warm), cfg.swarm_size \div 4))

RECURSIVE FillRoutes(_, _, _, _, _, _)
\* initialize_swarm, lines 139-144: the routes of the particles after the
\* loop, where noise[k] is the draw of the k-th call of _generate_random_route
FillRoutes(routes, k, cfg, o, d, noise) ==
    IF Len(routes) >= cfg.swarm_size THEN routes
    ELSE LET bounds == GetBounds(o, d)
             route == GenerateRandomRoute(cfg, o, d, bounds,
                                          [i \in 1..cfg.n_waypoints |-> noise[k]])
             one == Append(routes, route)
         IN  IF Len(one) < cfg.swarm_size
             THEN FillRoutes(Append(one, OppositionRoute(route, bounds)), k + 1, cfg, o, d, noise)
             ELSE one

\* a mutant of ClipPosition: the position is not clipped
NoClipPosition(position, bounds) == position

\* iterate, lines 169-170
ClipPosition(position, bounds) ==
    [r \in 1..Len(position) |-> ClipPoint(position[r], bounds)]

\* iterate, lines 164-167: an entry of the new velocity
NewVelocity(p, leader, ctx, r, c) ==
    LET cognitive == Quot(Quot(ctx.cfg.c1 * ctx.r1, FP)
                            * (p.personal_best[r][c] - p.position[r][c]), FP)
        social == Quot(Quot(ctx.cfg.c2 * ctx.r2, FP) * (leader[r][c] - p.position[r][c]), FP)
    IN  Clip(Quot(ctx.inertia * p.velocity[r][c], FP) + cognitive + social,
             0 - ctx.cfg.v_max_lat, ctx.cfg.v_max_lat)

\* iterate, lines 164-167: the new velocity
Velocity(p, leader, ctx) ==
    [r \in 1..Len(p.position) |->
       <<NewVelocity(p, leader, ctx, r, 1), NewVelocity(p, leader, ctx, r, 2)>>]

\* iterate, line 168: position[1:-1] += velocity[1:-1]
Moved(position, velocity) ==
    [r \in 1..Len(position) |->
       IF 1 < r /\ r < Len(position)
       THEN <<position[r][1] + velocity[r][1], position[r][2] + velocity[r][2]>>
       ELSE position[r]]

\* iterate, line 171: position[0], position[-1] = origin, destination
Pinned(position, o, d) ==
    [r \in 1..Len(position) |->
       IF r = Len(position) THEN d ELSE IF r = 1 THEN o ELSE position[r]]

\* iterate, lines 176-178; the result holds the particle, its objective
\* array and whether a land violation was found
Judged(p, position, velocity, obj_arr, violations, ctx) ==
    LET fitness == Fitness(ctx.w, obj_arr, calculate_penalty(violations))
        better == IsBetter(fitness, ctx.w, p.personal_best_obj)
    IN  [particle |-> Particle(position, velocity, p.speeds,
                               IF better THEN position ELSE p.personal_best,
                               IF better THEN obj_arr ELSE p.personal_best_obj,
                               fitness),
         obj |-> obj_arr,
         land |-> HasLand(violations)]

\* iterate, lines 172-175
Evaluated(p, position, velocity, ctx) ==
    Judged(p, position, velocity, evaluate(position, p.speeds),
           check_route(position, p.speeds, ctx.now), ctx)

\* iterate, lines 168-171
Repositioned(p, velocity, ctx) ==
    Evaluated(p, Pinned(ClipPosition(Moved(p.position, velocity), ctx.bounds), ctx.o, ctx.d),
              velocity, ctx)

\* iterate, lines 160-178: the pass of the loop for particle p with the
\* leader it follows
MoveParticle(p, leader, ctx) == Repositioned(p, Velocity(p, leader, ctx), ctx)

\* iterate, lines 161-163
Leader(arch, gbest, w, p) ==
    IF Len(arch.solutions) > 0 THEN get_compromise(arch, w)
    ELSE IF gbest = None THEN p.personal_best ELSE gbest

\* iterate, lines 179-180: the archive is offered the position unless a land
\* violation was found; offered holds the particles whose position was
\* handed to archive.add
Offered(prev, k, p, m) ==
    LET parts == [prev.particles EXCEPT ![k] = m.particle]
    IN  IF m.land
        THEN { [particles |-> parts, archive |-> prev.archive, call |-> prev.call,
                offered |-> prev.offered] }
        ELSE { [particles |-> parts, archive |-> out.archive, call |-> out.call,
                offered |-> prev.offered \cup {k}] :
                 out \in AddOutcomes(prev.archive, m.particle.position, m.obj,
                                     SomeMeta(<< <<"speeds", p.speeds>> >>)) }

\* iterate, lines 159-180, for particle k: the leader is read from the
\* archive as the particles before k left it
ParticleOutcomes(prev, k, ctx) ==
    Offered(prev, k, prev.particles[k],
            MoveParticle(prev.particles[k],
                         Leader(prev.archive, ctx.global_best, ctx.w, prev.particles[k]), ctx))

RECURSIVE ParticleLoop(_, _, _)
\* the states the loop of iterate can be in after its first k passes
ParticleLoop(k, start, ctx) ==
    IF k = 0 THEN {start}
    ELSE UNION { ParticleOutcomes(prev, k, ctx) : prev \in ParticleLoop(k - 1, start, ctx) }

\* iterate, lines 187-188
Opposed(p, opp, opp_fit) ==
    IF opp_fit < p.fitness THEN [p EXCEPT !.position = opp, !.fitness = opp_fit] ELSE p

\* iterate, lines 184-186
OppositionOf(p, opp, w, now) ==
    Opposed(p, opp, Fitness(w, evaluate(opp, p.speeds),
                            calculate_penalty(check_route(opp, p.speeds, now))))

\* iterate, lines 183-188: the opposition step
OppositionStep(parts, w, bounds, now) ==
    [k \in 1..Len(parts) |->
       OppositionOf(parts[k], OppositionRoute(parts[k].position, bounds), w, now)]

\* the outcomes of np.random.random() < opposition_rate
OppositionCoins(rate) == { b \in BOOLEAN : (b => rate > 0) /\ (~b => rate < FP) }

\* iterate, line 182: whether the opposition step runs; the coin is only
\* thrown when the swarm has stagnated
OppositionDraws(cfg, stagnation) ==
    IF stagnation >= cfg.stagnation_limit \div 2 THEN OppositionCoins(cfg.opposition_rate)
    ELSE {FALSE}

\* initialize_swarm, lines 136-144: the particles
Swarm(routes, w, vel, sn, now) ==
    [k \in 1..Len(routes) |-> CreateParticle(routes[k], w, vel, sn, now)]

\* the fields of the engine its calls read and write
Engine(parts, arch, c, gbest, gbest_obj, chaos, iter, stagnation, history) ==
    [particles |-> parts, archive |-> arch, call |-> c, global_best |-> gbest,
     global_best_obj |-> gbest_obj, chaos_value |-> chaos, iteration |-> iter,
     stagnation_count |-> stagnation, convergence_history |-> history]

TheEngine ==
    Engine(particles, TheArchive, call, global_best, global_best_obj, chaos_value,
           iteration, stagnation_count, convergence_history)

SetEngine(eng) ==
    /\ particles' = eng.particles
    /\ SetArchive(eng.archive)
    /\ call' = eng.call
    /\ global_best' = eng.global_best
    /\ global_best_obj' = eng.global_best_obj
    /\ chaos_value' = eng.chaos_value
    /\ iteration' = eng.iteration
    /\ stagnation_count' = eng.stagnation_count
    /\ convergence_history' = eng.convergence_history

\* the engine as __init__ leaves it
NewEngine(cfg, seed) ==
    Engine(<<>>, Archive(cfg.archive_size, <<>>, <<>>, <<>>), NoCall, None, None, seed,
           0, 0, <<>>)

\* HACOPSOEngine(config, objective_func, constraint_handler, origin, destination, weights)
\* for a setup
Constructed(setup) ==
    /\ config = SetupConfig(setup)
    /\ weights = setup.w
    /\ origin = Origin
    /\ destination = setup.destination
    /\ ocean = setup.ocean
    /\ handler = ConstraintHandler(setup.max_fuel)
    /\ max_size = config.archive_size
    /\ solutions = <<>>
    /\ objectives = <<>>
    /\ metadata = <<>>
    /\ call = NoCall
    /\ dom = NoDom
    /\ particles = <<>>
    /\ global_best = None
    /\ global_best_obj = None
    /\ chaos_value = setup.seed
    /\ iteration = 0
    /\ stagnation_count = 0
    /\ convergence_history = <<>>
    /\ step = None

InitEngine ==
    /\ \E setup \in EngineSetups : Constructed(setup)
    /\ twin = None
    /\ ga = None
    /\ NoUnit
    /\ NoService

\* The readings of the clock: a moment, and a quarter of an hour later.
\* When no storm zone has a valid_until the reading reaches nothing, and one
\* reading stands for all.
ClockTimes == {WallClock, WallClock + 900}
ClockReads ==
    IF \E k \in 1..Len(ocean.storm_zones) : ocean.storm_zones[k].valid_until # 0
    THEN ClockTimes ELSE {WallClock}

\* initialize_swarm, line 145: _update_global_best() raises ValueError on an
\* empty swarm (min of an empty list) after the particles are cleared
GlobalBestOf(eng, parts, w) ==
    IF Len(parts) = 0
    THEN [engine |-> [eng EXCEPT !.particles = parts], raised |-> "ValueError"]
    ELSE LET gb == UpdateGlobalBest(parts, w, eng.global_best, eng.global_best_obj,
                                    eng.stagnation_count)
         IN  [engine |-> [eng EXCEPT !.particles = parts,
                                     !.global_best = gb.global_best,
                                     !.global_best_obj = gb.global_best_obj,
                                     !.stagnation_count = gb.stagnation_count],
              raised |-> ""]

\* initialize_swarm(warm_start) with the draws of a SwarmDraws record, when
\* the clock reads now: the engine it leaves and the exception it raises.
\* Nothing catches what a query of the ocean raises in check_route or
\* evaluate: the first _create_particle ends initialize_swarm after
\* particles.clear().
InitializedSwarm(eng, cfg, w, o, d, warm, draw, now) ==
    IF ocean.raises /\ cfg.swarm_size > 0
    THEN [engine |-> [eng EXCEPT !.particles = <<>>], raised |-> "OceanError"]
    ELSE GlobalBestOf(eng,
                      Swarm(FillRoutes(WarmRoutes(cfg, warm), 1, cfg, o, d, draw.noise),
                            w, draw.vel, draw.sn, now),
                      w)

\* initialize_swarm(warm_start), called once, as optimize does
InitializeSwarm ==
    /\ step = None
    /\ \E warm \in WarmStarts, draw \in SwarmDraws, now \in ClockReads :
         \E out \in { InitializedSwarm(TheEngine, config, weights, origin, destination,
                                       warm, draw, now) } :
             /\ SetEngine(out.engine)
             /\ step' = [op |-> "initialize_swarm", warm_start |-> warm,
                         raised |-> out.raised]
    /\ UNCHANGED <<dom, config, origin, destination, weights, ocean, handler, twin, ga, unitVars, serviceVars>>

\* iterate, lines 157-158 and the values the loop reads
Context(cfg, w, o, d, gbest, ciw, r1, r2, now) ==
    [cfg |-> cfg, w |-> w, o |-> o, d |-> d, bounds |-> GetBounds(o, d),
     inertia |-> ciw.inertia, r1 |-> r1, r2 |-> r2, global_best |-> gbest, now |-> now]

\* iterate, lines 189-190: min(p.fitness for p in self.particles)
BestFitness(parts) ==
    parts[ArgMin([k \in 1..Len(parts) |-> parts[k].fitness])].fitness

\* the particles whose personal best the loop of iterate has replaced
Improved(before, after) ==
    { k \in 1..Len(before) : after[k].personal_best_obj # before[k].personal_best_obj }

\* iterate, lines 189-192: the engine after the call and the record of the call
Closed(eng, ctx, ciw, out, gb, opposed, final) ==
    [engine |-> Engine(final, out.archive, out.call, gb.global_best, gb.global_best_obj,
                       ciw.chaos_value, eng.iteration + 1, gb.stagnation_count,
                       Append(eng.convergence_history, BestFitness(final))),
     step |-> [op |-> "iterate", r1 |-> ctx.r1, r2 |-> ctx.r2, opposed |-> opposed,
               improved |-> Improved(eng.particles, out.particles), raised |-> "",
               moved |-> [k \in 1..Len(out.particles) |-> out.particles[k].position],
               offered |-> out.offered, replaced |-> gb.replaced]]

\* iterate, lines 182-188
Finished(eng, ctx, ciw, out, gb) ==
    { Closed(eng, ctx, ciw, out, gb, opposed,
             IF opposed THEN OppositionStep(out.particles, ctx.w, ctx.bounds, ctx.now)
             ELSE out.particles) :
        opposed \in OppositionDraws(ctx.cfg, gb.stagnation_count) }

\* iterate, lines 159-181
Looped(eng, ctx, ciw) ==
    UNION { Finished(eng, ctx, ciw, out,
                     UpdateGlobalBest(out.particles, ctx.w, eng.global_best,
                                      eng.global_best_obj, eng.stagnation_count)) :
              out \in ParticleLoop(Len(eng.particles),
                                   [particles |-> eng.particles, archive |-> eng.archive,
                                    call |-> eng.call, offered |-> {}], ctx) }

Started(eng, cfg, w, o, d, ciw, r1, r2, now) ==
    Looped(eng, Context(cfg, w, o, d, eng.global_best, ciw, r1, r2, now), ciw)

\* iterate() with the draws r1 and r2 when the clock reads now: the engines
\* it can leave, each with the record of the call
IterateOutcomes(eng, cfg, w, o, d, r1, r2, now) ==
    Started(eng, cfg, w, o, d, ChaoticInertiaWeight(cfg, eng.chaos_value, eng.iteration),
            r1, r2, now)

\* iterate(), called at most max_iterations times after initialize_swarm
\* has returned, as optimize does
Iterate ==
    /\ step # None
    /\ step.raised = ""
    /\ iteration < config.max_iterations
    /\ \E r1, r2 \in RandomDraws, now \in ClockReads :
       \E out \in IterateOutcomes(TheEngine, config, weights, origin, destination,
                                  r1, r2, now) :
          /\ SetEngine(out.engine)
          /\ step' = out.step
    /\ UNCHANGED <<dom, config, origin, destination, weights, ocean, handler, twin, ga, unitVars, serviceVars>>

NextEngine == InitializeSwarm \/ Iterate

SpecEngine == InitEngine /\ [][NextEngine]_vars

----------------------------------------------------------------------------
(* Two runs of the engine on the same draws                                 *)

\* the ocean with the storm over the origin, where the storm warning is
\* valid until a moment between the two readings of the clock
ExpiringStormOcean ==
    [DefaultOcean EXCEPT
        !.storm_zones = <<StormZone(Origin[1], Origin[2], 3 * Deg, 900, WallClock + 450)>>]

\* the engine run twice
TwinSetups == { [SmallSetup EXCEPT !.ocean = ExpiringStormOcean] }

\* the wall-clock times of the first and of the second run, the second run
\* no earlier than the first
ClockPairs == { c \in ClockTimes \X ClockTimes : c[1] <= c[2] }

\* Two engines are constructed alike: the first is held by the variables of
\* the engine, the second by twin, with the clock reading of either run.
InitTwin ==
    /\ \E setup \in TwinSetups : Constructed(setup)
    /\ \E c \in ClockPairs : twin = [clock |-> c, engine |-> NewEngine(config, chaos_value)]
    /\ ga = None
    /\ NoUnit
    /\ NoService

\* initialize_swarm(warm_start) in both runs, on the same draws
TwinInitializeSwarm ==
    /\ step = None
    /\ \E warm \in WarmStarts, draw \in SwarmDraws :
         \E a \in { InitializedSwarm(TheEngine, config, weights, origin, destination,
                                     warm, draw, twin.clock[1]) },
            b \in { InitializedSwarm(twin.engine, config, weights, origin, destination,
                                     warm, draw, twin.clock[2]) } :
             /\ SetEngine(a.engine)
             /\ step' = [op |-> "initialize_swarm", warm_start |-> warm, raised |-> a.raised]
             /\ twin' = [twin EXCEPT !.engine = b.engine]
    /\ UNCHANGED <<dom, config, origin, destination, weights, ocean, handler, ga, unitVars, serviceVars>>

\* whether iterate has thrown the coin of the opposition step
Stagnant(eng, cfg) == eng.stagnation_count >= cfg.stagnation_limit \div 2

\* iterate() in both runs, on the same draws: where both runs throw the
\* coin of the opposition step, it falls alike
TwinIterate ==
    /\ step # None
    /\ step.raised = ""
    /\ iteration < config.max_iterations
    /\ \E r1, r2 \in RandomDraws :
       \E a \in IterateOutcomes(TheEngine, config, weights, origin, destination,
                                r1, r2, twin.clock[1]),
          b \in IterateOutcomes(twin.engine, config, weights, origin, destination,
                                r1, r2, twin.clock[2]) :
          /\ (Stagnant(a.engine, config) /\ Stagnant(b.engine, config))
                => a.step.opposed = b.step.opposed
          /\ SetEngine(a.engine)
          /\ step' = a.step
          /\ twin' = [twin EXCEPT !.engine = b.engine]
    /\ UNCHANGED <<dom, config, origin, destination, weights, ocean, handler, ga, unitVars, serviceVars>>

NextTwin == TwinInitializeSwarm \/ TwinIterate

SpecTwin == InitTwin /\ [][NextTwin]_vars

----------------------------------------------------------------------------
(* app/services/optimization.py, app/api/routes/jobs.py and optimize of     *)
(* app/engine/hacopso.py: a job, the background task that runs it and a     *)
(* request to cancel it                                                     *)

\* OptimizationJob.is_terminal
is_terminal(status) == status \in {"completed", "failed", "cancelled"}

\* the number of DELETE /jobs/{job_id} requests sent for the job
MaxCancels == 1

\* the engines the service runs: a usual one with a stagnation limit below
\* max_iterations, one with a destination on land, one without interior
\* waypoints and one with an empty swarm
JobSetups ==
    { [SmallSetup EXCEPT !.stagnation_limit = StagnationLimit - 1],
      [SmallSetup EXCEPT !.destination = LandDestination],
      [SmallSetup EXCEPT !.n_waypoints = 0],
      [SmallSetup EXCEPT !.size = 0] }

\* POST /optimize has created the job and scheduled run_optimization; the
\* engine the task will construct is given from the start
InitJob ==
    /\ \E setup \in JobSetups : Constructed(setup)
    /\ twin = None
    /\ ga = None
    /\ NoUnit
    /\ job = [status |-> "pending", iterations_completed |-> 0, solutions_count |-> 0]
    /\ task = [pc |-> "start", passes |-> 0, result |-> None]
    /\ request = [pc |-> "idle", sent |-> 0, response |-> 0]

\* run_optimization, lines 62-68: the job is marked running
RunStart ==
    /\ task.pc = "start"
    /\ job' = [job EXCEPT !.status = "running"]
    /\ task' = [task EXCEPT !.pc = "optimize"]
    /\ UNCHANGED <<archiveVars, dom, config, origin, destination, weights, particles,
                   global_best, global_best_obj, chaos_value, iteration, stagnation_count,
                   convergence_history, step, ocean, handler, twin, ga, unitVars, request>>

\* a mutant of Stagnated: the stagnation count never ends the run
NeverStagnated(stagnation, cfg) == FALSE

\* optimize, line 200: self.stagnation_count >= self.config.stagnation_limit
Stagnated(stagnation, cfg) == stagnation >= cfg.stagnation_limit

\* optimize, lines 196-201: where the run is after `passes` passes of the
\* loop, the last of which left the stagnation count given
LoopExit(passes, stagnation, cfg) ==
    IF passes >= cfg.max_iterations \/ (passes > 0 /\ Stagnated(stagnation, cfg))
    THEN "return" ELSE "loop"

\* optimize, line 195: initialize_swarm(warm_start); an exception leaves
\* optimize and _run_hacopso
OptimizeStart ==
    /\ task.pc = "optimize"
    /\ \E warm \in WarmStarts, draw \in SwarmDraws, now \in ClockReads :
         \E out \in { InitializedSwarm(TheEngine, config, weights, origin, destination,
                                       warm, draw, now) } :
             /\ SetEngine(out.engine)
             /\ step' = [op |-> "initialize_swarm", warm_start |-> warm,
                         raised |-> out.raised]
             /\ task' = [task EXCEPT !.pc = IF out.raised # "" THEN "raised"
                                            ELSE LoopExit(0, out.engine.stagnation_count,
                                                          config)]
    /\ UNCHANGED <<dom, config, origin, destination, weights, ocean, handler, twin, ga, unitVars, job, request>>

\* optimize, lines 196-201: a pass of the loop
OptimizeIterate ==
    /\ task.pc = "loop"
    /\ \E r1, r2 \in RandomDraws, now \in ClockReads :
       \E out \in IterateOutcomes(TheEngine, config, weights, origin, destination,
                                  r1, r2, now) :
          /\ SetEngine(out.engine)
          /\ step' = out.step
          /\ task' = [task EXCEPT !.passes = @ + 1,
                                  !.pc = LoopExit(task.passes + 1,
                                                  out.engine.stagnation_count, config)]
    /\ UNCHANGED <<dom, config, origin, destination, weights, ocean, handler, twin, ga, unitVars, job, request>>

\* optimize, line 206: an entry of "solutions" (comfort is 1 - s[1][4])
SolutionEntry(route, obj, meta) ==
    [route |-> route,
     objectives |-> [fuel |-> obj[1], time |-> obj[2], risk |-> obj[3],
                     emissions |-> obj[4], comfort |-> ObjScale - obj[5]],
     meta |-> meta]

\* optimize, lines 202-207: the value returned
OptimizeResult(eng) ==
    [iterations |-> eng.iteration,
     archive_size |-> Len(eng.archive.solutions),
     convergence |-> eng.convergence_history,
     solutions |-> [k \in 1..Len(eng.archive.solutions) |->
                      SolutionEntry(eng.archive.solutions[k], eng.archive.objectives[k],
                                    eng.archive.metadata[k])]]

\* optimize, lines 202-207
OptimizeReturn ==
    /\ task.pc = "return"
    /\ task' = [task EXCEPT !.pc = "store", !.result = OptimizeResult(TheEngine)]
    /\ UNCHANGED <<archiveVars, dom, config, origin, destination, weights, particles,
                   global_best, global_best_obj, chaos_value, iteration, stagnation_count,
                   convergence_history, step, ocean, handler, twin, ga, unitVars, job, request>>

\* run_optimization, lines 119-174: a row is stored for every solution and
\* the job is marked completed
RunComplete ==
    /\ task.pc = "store"
    /\ job' = [status |-> "completed",
               iterations_completed |-> task.result.iterations,
               solutions_count |-> Len(task.result.solutions)]
    /\ task' = [task EXCEPT !.pc = "done"]
    /\ UNCHANGED <<archiveVars, dom, config, origin, destination, weights, particles,
                   global_best, global_best_obj, chaos_value, iteration, stagnation_count,
                   convergence_history, step, ocean, handler, twin, ga, unitVars, request>>

\* run_optimization, lines 176-184: the exception is recorded and raised again
RunFail ==
    /\ task.pc = "raised"
    /\ job' = [job EXCEPT !.status = "failed"]
    /\ task' = [task EXCEPT !.pc = "done"]
    /\ UNCHANGED <<archiveVars, dom, config, origin, destination, weights, particles,
                   global_best, global_best_obj, chaos_value, iteration, stagnation_count,
                   convergence_history, step, ocean, handler, twin, ga, unitVars, request>>

\* cancel_job, lines 92-99: the job is read; a job read as finished is
\* answered with 400
CancelRead ==
    /\ request.pc = "idle"
    /\ request.sent < MaxCancels
    /\ request' = IF is_terminal(job.status)
                  THEN [pc |-> "idle", sent |-> request.sent + 1, response |-> 400]
                  ELSE [pc |-> "update", sent |-> request.sent + 1, response |-> 0]
    /\ UNCHANGED <<archiveVars, dom, config, origin, destination, weights, particles,
                   global_best, global_best_obj, chaos_value, iteration, stagnation_count,
                   convergence_history, step, ocean, handler, twin, ga, unitVars, job, task>>

\* cancel_job, lines 101-104: the status is written, whatever it is by now
CancelUpdate ==
    /\ request.pc = "update"
    /\ job' = [job EXCEPT !.status = "cancelled"]
    /\ request' = [request EXCEPT !.pc = "idle", !.response = 200]
    /\ UNCHANGED <<archiveVars, dom, config, origin, destination, weights, particles,
                   global_best, global_best_obj, chaos_value, iteration, stagnation_count,
                   convergence_history, step, ocean, handler, twin, ga, unitVars, task>>

\* the steps of the background task
NextTask ==
    \/ RunStart
    \/ OptimizeStart
    \/ OptimizeIterate
    \/ OptimizeReturn
    \/ RunComplete
    \/ RunFail

NextJob == NextTask \/ CancelRead \/ CancelUpdate

SpecJob == InitJob /\ [][NextJob]_vars

\* WF_vars(OptimizeStart) and WF_vars(OptimizeIterate) written out.  Either
\* action is enabled exactly where the task is at its place (initialize_swarm
\* and iterate always have an outcome), OptimizeStart leaves its place, and a
\* step of OptimizeIterate is a step that counts a pass.
OptimizeFair ==
    /\ []<>(task.pc # "optimize")
    /\ []<>(task.pc # "loop") \/ []<><<task'.passes = task.passes + 1>>_vars

\* The task runs on the event loop and optimize on a thread of its executor:
\* a step of the task that can be taken is taken.
SpecJobFair ==
    /\ SpecJob
    /\ WF_vars(RunStart)
    /\ WF_vars(OptimizeReturn)
    /\ WF_vars(RunComplete)
    /\ WF_vars(RunFail)
    /\ OptimizeFair

----------------------------------------------------------------------------
(* app/engine/pareto.py: non_dominated_sort *)

\* lines 93-100: dominated_by[i], in the order of the appends
DominatedBy(objs, i) ==
    AscendingSeq({ j \in 1..Len(objs) : dominates(objs[i], objs[j]) }, Len(objs))

\* domination_count that misses the elif branch of lines 98-100: only the
\* dominators of a smaller index are counted
DominationCountForward(objs) ==
    [j \in 1..Len(objs) |->
        Cardinality({ i \in 1..(j - 1) : dominates(objs[i], objs[j]) })]

\* lines 93-100: domination_count
DominationCount(objs) ==
    [j \in 1..Len(objs) |->
        Cardinality({ i \in 1..Len(objs) : dominates(objs[i], objs[j]) })]

RECURSIVE ReleaseLoop(_, _, _)
\* lines 111-114: the inner loop over dominated_by[i], from its k-th entry on
ReleaseLoop(st, dominated, k) ==
    IF k > Len(dominated) THEN st
    ELSE LET j == dominated[k]
             count == [st.count EXCEPT ![j] = @ - 1]
         IN  ReleaseLoop([count |-> count,
                          next_front |-> IF count[j] = 0 THEN Append(st.next_front, j)
                                         ELSE st.next_front],
                         dominated, k + 1)

RECURSIVE FrontLoop(_, _, _, _)
\* lines 110-114: the loop over current_front, from its k-th member on
FrontLoop(objs, st, current_front, k) ==
    IF k > Len(current_front) THEN st
    ELSE FrontLoop(objs, ReleaseLoop(st, DominatedBy(objs, current_front[k]), 1),
                   current_front, k + 1)

RECURSIVE BuildFronts(_, _, _, _)
\* lines 106-116: the while loop
BuildFronts(objs, count, current_front, fronts) ==
    IF Len(current_front) = 0 THEN fronts
    ELSE LET st == FrontLoop(objs, [count |-> count, next_front |-> <<>>], current_front, 1)
         IN  BuildFronts(objs, st.count, st.next_front, Append(fronts, current_front))

\* non_dominated_sort(objectives): the fronts, each a list of indices
non_dominated_sort(objs) ==
    IF Len(objs) = 0 THEN <<>>
    ELSE LET count == DominationCount(objs)
         IN  BuildFronts(objs, count,
                         AscendingSeq({ i \in 1..Len(objs) : count[i] = 0 }, Len(objs)),
                         <<>>)

----------------------------------------------------------------------------
(* app/engine/genetic.py *)

\* GAConfig(population_size, max_generations), with n_waypoints and
\* tournament_size set by the caller
GAConfig(population_size, max_generations, n_waypoints, tournament_size) ==
    [population_size |-> population_size, max_generations |-> max_generations,
     n_waypoints |-> n_waypoints, tournament_size |-> tournament_size]

Individual(chromosome, speeds, objs, rank, crowding) ==
    [chromosome |-> chromosome, speeds |-> speeds, objectives |-> objs,
     rank |-> rank, crowding |-> crowding]

\* GeneticAlgorithm(config, objective_func, constraint_handler, origin, destination)
GeneticAlgorithm(cfg, o, d) ==
    [config |-> cfg, origin |-> o, destination |-> d, population |-> <<>>,
     generation |-> 0, step |-> None]

\* _create_individual(bounds): noise is the value of np.random.uniform(-5, 5, 2)
\* of every interior row, sn the value of np.random.uniform(-2, 2, n_wp + 1)
CreateIndividual(g, bounds, noise, sn) ==
    LET chrom == GenerateRandomRoute(g.config, g.origin, g.destination, bounds, noise)
        speeds == [k \in 1..(g.config.n_waypoints + 1) |->
                     Clip(service_speed + sn[k], min_speed, max_speed)]
    IN  Individual(chrom, speeds, evaluate(chrom, speeds), 0, 0)

RECURSIVE RankOf(_, _, _)
\* the number (0-based) of the front that holds idx, from front f on
RankOf(fronts, idx, f) ==
    IF \E i \in 1..Len(fronts[f]) : fronts[f][i] = idx THEN f - 1
    ELSE RankOf(fronts, idx, f + 1)

PlaceIn(front, idx) == CHOOSE i \in 1..Len(front) : front[i] = idx

\* _assign_fitness(): the populations it can leave, over the orders in which
\* the sorts of crowding_distance may leave equal values
AssignFitness(pop) ==
    LET objs == [k \in 1..Len(pop) |-> pop[k].objectives]
        fronts == non_dominated_sort(objs)
        front_obj == [f \in 1..Len(fronts) |->
                        [i \in 1..Len(fronts[f]) |-> objs[fronts[f][i]]]]
        choices == [f \in 1..Len(fronts) |-> CrowdingDistances(front_obj[f], Len(objs[1]))]
    IN  { [k \in 1..Len(pop) |->
             LET f == RankOf(fronts, k, 1) + 1
             IN  [pop[k] EXCEPT !.rank = f - 1,
                                !.crowding = distances[f][PlaceIn(fronts[f], k)]]] :
            distances \in { ds \in [1..Len(fronts) -> UNION { choices[f] : f \in 1..Len(fronts) }] :
                              \A f \in 1..Len(fronts) : ds[f] \in choices[f] } }

RECURSIVE TournamentLoop(_, _, _, _)
\* _tournament_select, lines 97-102: the index of the winner among the
\* candidates from the k-th on; best = 0 is None
TournamentLoop(pop, candidates, k, best) ==
    IF k > Len(candidates) THEN best
    ELSE LET idx == candidates[k]
             ind == pop[idx]
         IN  TournamentLoop(pop, candidates, k + 1,
                 IF \/ best = 0
                    \/ ind.rank < pop[best].rank
                    \/ (ind.rank = pop[best].rank /\ ind.crowding > pop[best].crowding)
                 THEN idx ELSE best)

\* _tournament_select() when np.random.choice returns candidates
TournamentSelect(pop, candidates) == pop[TournamentLoop(pop, candidates, 1, 0)]

\* alpha * x + (1 - alpha) * y, alpha in 1/FP
Blend(alpha, x, y) == Quot(alpha * x + (FP - alpha) * y, FP)

\* lines 109-112: the chromosome of a child
BlendChromosome(g, alpha, a, b) ==
    [r \in 1..Len(a) |->
        IF r = Len(a) THEN g.destination
        ELSE IF r = 1 THEN g.origin
        ELSE <<Blend(alpha, a[r][1], b[r][1]), Blend(alpha, a[r][2], b[r][2])>>]

\* _crossover(p1, p2): cross is whether np.random.random() <= crossover_rate
Crossover(g, p1, p2, cross, alpha) ==
    IF ~cross
    THEN <<Individual(p1.chromosome, p1.speeds, p1.objectives, 0, 0),
           Individual(p2.chromosome, p2.speeds, p2.objectives, 0, 0)>>
    ELSE LET c1_chrom == BlendChromosome(g, alpha, p1.chromosome, p2.chromosome)
             c2_chrom == BlendChromosome(g, FP - alpha, p1.chromosome, p2.chromosome)
             c1_speeds == [k \in 1..Len(p1.speeds) |-> Blend(alpha, p1.speeds[k], p2.speeds[k])]
             c2_speeds == [k \in 1..Len(p1.speeds) |->
                             Blend(FP - alpha, p1.speeds[k], p2.speeds[k])]
         IN  <<Individual(c1_chrom, c1_speeds, evaluate(c1_chrom, c1_speeds), 0, 0),
               Individual(c2_chrom, c2_speeds, evaluate(c2_chrom, c2_speeds), 0, 0)>>

\* _mutate(ind, bounds): m.mutate is whether np.random.random() <= mutation_rate,
\* m.rows[i].hit whether row i is moved and m.rows[i].by the normal noise
Mutate(ind, bounds, m) ==
    IF ~m.mutate THEN ind
    ELSE LET mutated ==
                 [r \in 1..Len(ind.chromosome) |->
                     IF r > 1 /\ r < Len(ind.chromosome) /\ m.rows[r - 1].hit
                     THEN ClipPoint(<<ind.chromosome[r][1] + m.rows[r - 1].by[1],
                                      ind.chromosome[r][2] + m.rows[r - 1].by[2]>>, bounds)
                     ELSE ind.chromosome[r]]
         IN  Individual(mutated, ind.speeds, evaluate(mutated, ind.speeds), 0, 0)

\* evolve, lines 135-137: the two children of a pass of the while loop
Children(g, bounds, draw) ==
    LET p1 == TournamentSelect(g.population, draw.first)
        p2 == TournamentSelect(g.population, draw.second)
        c == Crossover(g, p1, p2, draw.cross, draw.alpha)
    IN  <<Mutate(c[1], bounds, draw.m1), Mutate(c[2], bounds, draw.m2)>>

RECURSIVE Offspring(_, _, _, _)
\* evolve, lines 133-137: offspring after the first k passes
Offspring(g, bounds, draws, k) ==
    IF k = 0 THEN <<>>
    ELSE Offspring(g, bounds, draws, k - 1) \o Children(g, bounds, draws[k])

RECURSIVE FillLoopSkipping(_, _, _, _, _)
\* the loop of lines 142-151 without the cut and the break: a front that
\* does not fit is passed over and the later fronts are still taken
FillLoopSkipping(objs, fronts, f, new_pop, size) ==
    IF f > Len(fronts) THEN { new_pop }
    ELSE IF Len(new_pop) + Len(fronts[f]) <= size
         THEN FillLoopSkipping(objs, fronts, f + 1, new_pop \o fronts[f], size)
         ELSE FillLoopSkipping(objs, fronts, f + 1, new_pop, size)

RECURSIVE FillLoop(_, _, _, _, _)
\* evolve, lines 142-151: the loop over the fronts from front f on; the
\* indices of combined that make up new_pop, for every array crowding_distance
\* can return for the front that is cut
FillLoop(objs, fronts, f, new_pop, size) ==
    IF f > Len(fronts) THEN { new_pop }
    ELSE LET front == fronts[f]
         IN  IF Len(new_pop) + Len(front) <= size
             THEN FillLoop(objs, fronts, f + 1, new_pop \o front, size)
             ELSE LET front_obj == [i \in 1..Len(front) |-> objs[front[i]]]
                      remaining == size - Len(new_pop)
                  IN  { new_pop \o [i \in 1..remaining |->
                                      front[StableArgsort(Negated(distances))[i]]] :
                          distances \in CrowdingDistances(front_obj, Len(objs[1])) }

\* evolve, lines 154-158 for an individual: the archive is offered the
\* chromosome when the rank is 0 and check_route finds no land violation
OfferedIndividual(prev, k, ind, now) ==
    IF ind.rank = 0 /\ ~HasLand(check_route(ind.chromosome, ind.speeds, now))
    THEN { [archive |-> out.archive, call |-> out.call, offered |-> prev.offered \cup {k}] :
             out \in AddOutcomes(prev.archive, ind.chromosome, ind.objectives,
                                 SomeMeta(<< <<"speeds", ind.speeds>> >>)) }
    ELSE { prev }

RECURSIVE OfferLoop(_, _, _, _)
\* evolve, lines 154-158: the loop over the population, from individual k on
OfferLoop(pop, k, prev, now) ==
    IF k > Len(pop) THEN { prev }
    ELSE UNION { OfferLoop(pop, k + 1, nxt, now) :
                   nxt \in OfferedIndividual(prev, k, pop[k], now) }

\* the draws of initialize_population for one individual
IndividualDraws(cfg) ==
    { [noise |-> [i \in 1..cfg.n_waypoints |-> d.noise],
       sn |-> [k \in 1..(cfg.n_waypoints + 1) |-> d.sn]] :
        d \in { [noise |-> <<2 * Deg, Deg>>, sn |-> 0],
                [noise |-> <<0, -5 * Deg>>, sn |-> 1],
                [noise |-> <<-3 * Deg, 0>>, sn |-> -2] } }

NoMutation(cfg) ==
    [mutate |-> FALSE, rows |-> [i \in 1..cfg.n_waypoints |-> [hit |-> FALSE, by |-> <<0, 0>>]]]
Mutation(cfg, hit, by) ==
    [mutate |-> TRUE, rows |-> [i \in 1..cfg.n_waypoints |-> [hit |-> hit, by |-> by]]]

\* the draws of a pass of the while loop of evolve: the candidates of the
\* two tournaments, the crossover and the two mutations
PassDraws(cfg) ==
    LET up == [k \in 1..cfg.tournament_size |-> k]
        down == [k \in 1..cfg.tournament_size |-> cfg.tournament_size + 1 - k]
    IN  { [first |-> up, second |-> down, cross |-> TRUE, alpha |-> FP \div 2,
           m1 |-> NoMutation(cfg), m2 |-> NoMutation(cfg)],
          [first |-> down, second |-> up, cross |-> FALSE, alpha |-> 0,
           m1 |-> Mutation(cfg, TRUE, <<Deg, -2 * Deg>>), m2 |-> NoMutation(cfg)],
          [first |-> up, second |-> down, cross |-> TRUE, alpha |-> FP \div 4,
           m1 |-> NoMutation(cfg), m2 |-> Mutation(cfg, TRUE, <<-3 * Deg, 2 * Deg>>)],
          [first |-> down, second |-> down, cross |-> FALSE, alpha |-> 0,
           m1 |-> Mutation(cfg, FALSE, <<0, 0>>), m2 |-> NoMutation(cfg)] }

\* the runs of the genetic algorithm: the configuration, the destination and
\* the ocean
GASetup(d, oc) ==
    [config |-> GAConfig(PopulationSize, MaxGenerations, 1, 2), destination |-> d, ocean |-> oc]
GASetups ==
    { GASetup(Destination, DefaultOcean), GASetup(Destination, StormOcean),
      GASetup(LandDestination, DefaultOcean) }

\* GeneticAlgorithm.__init__: the archive is ParetoArchiveManager(max_size=100)
InitGA ==
    /\ \E setup \in GASetups :
         /\ ga = GeneticAlgorithm(setup.config, Origin, setup.destination)
         /\ ocean = setup.ocean
         /\ handler = ConstraintHandler(NoFuelLimit)
    /\ max_size = 100
    /\ solutions = <<>>
    /\ objectives = <<>>
    /\ metadata = <<>>
    /\ call = NoCall
    /\ dom = NoDom
    /\ config = None
    /\ origin = None
    /\ destination = None
    /\ weights = None
    /\ particles = <<>>
    /\ global_best = None
    /\ global_best_obj = None
    /\ chaos_value = 0
    /\ iteration = 0
    /\ stagnation_count = 0
    /\ convergence_history = <<>>
    /\ step = None
    /\ twin = None
    /\ NoUnit
    /\ NoService

\* initialize_population()
InitializePopulation ==
    /\ ga # None
    /\ ga.step = None
    /\ \E draws \in [1..ga.config.population_size -> IndividualDraws(ga.config)] :
         LET bounds == GetBounds(ga.origin, ga.destination)
             created == [k \in 1..ga.config.population_size |->
                           CreateIndividual(ga, bounds, draws[k].noise, draws[k].sn)]
         IN  \E pop \in AssignFitness(created) :
               ga' = [ga EXCEPT !.population = pop,
                                !.step = [op |-> "initialize_population", offered |-> {},
                                            fronts |-> <<>>, kept |-> <<>>]]
    /\ UNCHANGED <<archiveVars, dom, config, origin, destination, weights, particles,
                   global_best, global_best_obj, chaos_value, iteration, stagnation_count,
                   convergence_history, step, ocean, handler, twin, unitVars, serviceVars>>

\* evolve(), called by the loop of optimize while generations remain
Evolve ==
    /\ ga # None
    /\ ga.step # None
    /\ ga.generation < ga.config.max_generations
    /\ \E draws \in [1..((ga.config.population_size + 1) \div 2) -> PassDraws(ga.config)],
          now \in ClockReads :
         LET size == ga.config.population_size
             bounds == GetBounds(ga.origin, ga.destination)
             offspring == Offspring(ga, bounds, draws, (size + 1) \div 2)
             combined == ga.population \o SubSeq(offspring, 1, size)
             objs == [k \in 1..Len(combined) |-> combined[k].objectives]
             fronts == non_dominated_sort(objs)
         IN  \E new_pop \in FillLoop(objs, fronts, 1, <<>>, size) :
               \E pop \in AssignFitness([k \in 1..Len(new_pop) |-> combined[new_pop[k]]]) :
                 \E out \in OfferLoop(pop, 1, [archive |-> TheArchive, call |-> call,
                                               offered |-> {}], now) :
                   /\ SetArchive(out.archive)
                   /\ call' = out.call
                   /\ ga' = [ga EXCEPT !.population = pop,
                                       !.generation = @ + 1,
                                       !.step = [op |-> "evolve", offered |-> out.offered,
                                                   fronts |-> fronts, kept |-> new_pop]]
    /\ UNCHANGED <<dom, config, origin, destination, weights, particles,
                   global_best, global_best_obj, chaos_value, iteration, stagnation_count,
                   convergence_history, step, ocean, handler, twin, unitVars, serviceVars>>

NextGA == InitializePopulation \/ Evolve

\* the engines that offer routes to an archive: a HACOPSO engine or the
\* genetic algorithm
OfferSetups ==
    { SmallSetup, [SmallSetup EXCEPT !.ocean = StormOcean],
      [SmallSetup EXCEPT !.destination = LandDestination] }
InitOffer ==
    \/ /\ \E setup \in OfferSetups : Constructed(setup)
       /\ twin = None
       /\ ga = None
       /\ NoUnit
       /\ NoService
    \/ /\ InitGA
NextOffer ==
    \/ ga = None /\ InitializeSwarm
    \/ ga = None /\ Iterate
    \/ InitializePopulation
    \/ Evolve
SpecOffer == InitOffer /\ [][NextOffer]_vars

----------------------------------------------------------------------------
(* app/engine/hacopso.py: _chaotic_inertia_weight on its own *)

\* chaos_value = np.random.random(): every value of [0, 1] in steps of 1/FP
ChaosStates == 0..FP

\* an engine of each chaos map, with the default inertia bounds
InertiaSetups ==
    { Setup(MaxSwarm - 2, chaos, x, DefaultWeights) :
        chaos \in {"logistic", "tent", "sinusoidal"}, x \in ChaosStates }

InitInertia ==
    /\ \E setup \in InertiaSetups : Constructed(setup)
    /\ twin = None
    /\ ga = None
    /\ NoUnit
    /\ NoService

\* _chaotic_inertia_weight(), called at an iteration index of 0..max_iterations
ChaoticInertiaCall ==
    /\ config # None
    /\ LET ciw == ChaoticInertiaWeight(config, chaos_value, iteration)
       IN  /\ chaos_value' = ciw.chaos_value
           /\ step' = [op |-> "_chaotic_inertia_weight", inertia |-> ciw.inertia,
                       raised |-> ""]
    /\ UNCHANGED <<archiveVars, dom, config, origin, destination, weights, particles,
                   global_best, global_best_obj, iteration, stagnation_count,
                   convergence_history, ocean, handler, twin, ga, unitVars, serviceVars>>

\* self.iteration += 1, as iterate and the caller of the test do
AdvanceIteration ==
    /\ config # None
    /\ iteration < config.max_iterations
    /\ iteration' = iteration + 1
    /\ UNCHANGED <<archiveVars, dom, config, origin, destination, weights, particles,
                   global_best, global_best_obj, chaos_value, stagnation_count,
                   convergence_history, step, ocean, handler, twin, ga, unitVars,
                   serviceVars>>

NextInertia == ChaoticInertiaCall \/ AdvanceIteration

SpecInertia == InitInertia /\ [][NextInertia]_vars

----------------------------------------------------------------------------
(* app/engine/pareto.py: non_dominated_sort on its own *)

\* at most SortLen objective vectors are sorted ...
SortLen == 4
\* ... of two objectives, each in 0..SortObjVal
SortObjVal == 2

SortVectors == { <<a, b>> : a, b \in 0..SortObjVal }

RECURSIVE SortInputs(_)
\* the (N, 2) arrays of N <= n rows
SortInputs(n) ==
    IF n = 0 THEN { <<>> }
    ELSE LET shorter == SortInputs(n - 1)
         IN  shorter \cup { Append(objs, v) : objs \in { o \in shorter : Len(o) = n - 1 },
                                              v \in SortVectors }

InitSort ==
    /\ \E objs \in SortInputs(SortLen) :
         sorting = [objectives |-> objs, fronts |-> <<>>, returned |-> FALSE]
    /\ max_size = 100
    /\ solutions = <<>>
    /\ objectives = <<>>
    /\ metadata = <<>>
    /\ call = NoCall
    /\ dom = NoDom
    /\ config = None
    /\ origin = None
    /\ destination = None
    /\ weights = None
    /\ particles = <<>>
    /\ global_best = None
    /\ global_best_obj = None
    /\ chaos_value = 0
    /\ iteration = 0
    /\ stagnation_count = 0
    /\ convergence_history = <<>>
    /\ step = None
    /\ ocean = None
    /\ handler = None
    /\ twin = None
    /\ ga = None
    /\ heap = None
    /\ repair = None
    /\ NoService

\* fronts = non_dominated_sort(objectives)
NonDominatedSort ==
    /\ sorting # None
    /\ ~sorting.returned
    /\ sorting' = [sorting EXCEPT !.fronts = non_dominated_sort(sorting.objectives),
                                  !.returned = TRUE]
    /\ UNCHANGED <<archiveVars, dom, config, origin, destination, weights, particles,
                   global_best, global_best_obj, chaos_value, iteration,
                   stagnation_count, convergence_history, step, ocean, handler, twin,
                   ga, heap, repair, serviceVars>>

NextSort == NonDominatedSort

SpecSort == InitSort /\ [][NextSort]_vars

----------------------------------------------------------------------------
(* app/engine/constraints.py: repair_route *)

\* is_land(lat, lon) of the ocean grid
is_land(lat, lon) == LandMask(GetGridIndices(lat, lon))

\* max_iterations: int = 10
DefaultRepairIterations == 10

\* for delta in [0.1, 0.2, 0.5, 1.0]
RepairDeltas == <<Deg \div 10, Deg \div 5, Deg \div 2, Deg>>
\* for direction in [(1, 0), (-1, 0), (0, 1), (0, -1), (1, 1), (-1, -1)]
RepairDirections == << <<1, 0>>, <<-1, 0>>, <<0, 1>>, <<0, -1>>, <<1, 1>>, <<-1, -1>> >>

\* new_lat, new_lon of lines 258-259
Displaced(point, delta, direction) ==
    <<point[1] + delta * direction[1], point[2] + delta * direction[2]>>

RECURSIVE Perturb(_, _, _)
\* lines 256-267: the two nested loops from the d-th delta and the k-th
\* direction on; the row is left as it is when no displacement is off land
Perturb(point, d, k) ==
    IF d > Len(RepairDeltas) THEN point
    ELSE IF k > Len(RepairDirections) THEN Perturb(point, d + 1, 1)
    ELSE LET new == Displaced(point, RepairDeltas[d], RepairDirections[k])
         IN  IF ~is_land(new[1], new[2]) THEN new ELSE Perturb(point, d, k + 1)

RECURSIVE RepairPass(_, _, _)
\* lines 247-267: the loop over the violations of a pass, from the k-th on
RepairPass(repaired, violations, k) ==
    IF k > Len(violations) THEN repaired
    ELSE LET v == violations[k]
             idx == v.waypoint_index
         IN  IF v.constraint_type # "land" \/ idx = NotPassed
                \/ idx = 0 \/ idx = Len(repaired) - 1
             THEN RepairPass(repaired, violations, k + 1)
             ELSE RepairPass([repaired EXCEPT ![idx + 1] = Perturb(repaired[idx + 1], 1, 1)],
                             violations, k + 1)

RECURSIVE RepairLoop(_, _, _, _)
\* lines 240-267: for _ in range(max_iterations), with passes the number of
\* passes begun; check_route is called without speeds
RepairLoop(repaired, left, passes, now) ==
    IF left <= 0 THEN [repaired |-> repaired, passes |-> passes]
    ELSE LET violations == check_route(repaired, <<>>, now)
         IN  IF ~HasLand(violations) THEN [repaired |-> repaired, passes |-> passes + 1]
             ELSE RepairLoop(RepairPass(repaired, violations, 1), left - 1, passes + 1, now)

\* a working array that is the caller's array itself
WorkingArrayShared(route) == [array |-> route, shared |-> TRUE]

\* repaired = route.copy(): the working array is a buffer of its own
WorkingArray(route) == [array |-> route, shared |-> FALSE]

\* repair_route(route, max_iterations): the returned array, the caller's
\* array after the call and the passes begun
RepairRoute(route, max_iterations, now) ==
    LET work == WorkingArray(route)
        out == RepairLoop(work.array, max_iterations, 0, now)
    IN  [returned |-> out.repaired,
         route |-> IF work.shared THEN out.repaired ELSE route,
         passes |-> out.passes]

\* routes of at most RepairRows rows are repaired
RepairRows == 4

\* the rows of the routes: two points at sea, a point of the coast with water
\* 0.1 degrees to the north, a point with water 1.0 degrees to the west, a
\* point far inland, and a point whose only water within reach lies to the
\* south-east
RepairPoints ==
    { <<5 * Deg, 55 * Deg>>, <<8 * Deg, 60 * Deg>>,
      <<35 * Deg - Deg \div 10, 20 * Deg>>,
      <<0, (4 * Deg) \div 10 - 19 * Deg>>,
      <<0, 20 * Deg>>,
      <<10 * Deg + (6 * Deg) \div 10, 50 * Deg - Deg \div 10>> }

RECURSIVE RepairInputs(_)
\* the (N, 2) arrays of 1 <= N <= n rows
RepairInputs(n) ==
    IF n = 1 THEN { <<p>> : p \in RepairPoints }
    ELSE LET shorter == RepairInputs(n - 1)
         IN  shorter \cup { Append(r, p) : r \in { s \in shorter : Len(s) = n - 1 },
                                           p \in RepairPoints }

\* the values of max_iterations a caller passes
RepairBudgets == {1, 2, DefaultRepairIterations}

InitRepair ==
    /\ \E route \in RepairInputs(RepairRows), budget \in RepairBudgets :
         repair = [input |-> route, route |-> route, max_iterations |-> budget,
                   returned |-> None, passes |-> 0]
    /\ ocean = DefaultOcean
    /\ handler = ConstraintHandler(NoFuelLimit)
    /\ max_size = 100
    /\ solutions = <<>>
    /\ objectives = <<>>
    /\ metadata = <<>>
    /\ call = NoCall
    /\ dom = NoDom
    /\ config = None
    /\ origin = None
    /\ destination = None
    /\ weights = None
    /\ particles = <<>>
    /\ global_best = None
    /\ global_best_obj = None
    /\ chaos_value = 0
    /\ iteration = 0
    /\ stagnation_count = 0
    /\ convergence_history = <<>>
    /\ step = None
    /\ twin = None
    /\ ga = None
    /\ heap = None
    /\ sorting = None
    /\ NoService

\* a call of repair_route(route, max_iterations)
Repair ==
    /\ repair # None
    /\ repair.returned = None
    /\ \E now \in ClockReads :
         LET out == RepairRoute(repair.route, repair.max_iterations, now)
         IN  repair' = [repair EXCEPT !.returned = out.returned,
                                      !.route = out.route,
                                      !.passes = out.passes]
    /\ UNCHANGED <<archiveVars, dom, config, origin, destination, weights, particles,
                   global_best, global_best_obj, chaos_value, iteration,
                   stagnation_count, convergence_history, step, ocean, handler, twin,
                   ga, heap, sorting, serviceVars>>

NextRepair == Repair

SpecRepair == InitRepair /\ [][NextRepair]_vars

----------------------------------------------------------------------------
(* app/engine/hacopso.py and pareto.py: the arrays behind the engine. Every
   NumPy array is a buffer heap.arrays[id]; a particle, the archive and the
   engine hold the ids of their arrays. A statement that builds an array
   appends a buffer, an assignment to a field changes the id the field
   holds, and an assignment through an index or += rewrites the buffer. *)

\* a new array with the given content: the heap and the id of the array
Alloc(h, content) == [h EXCEPT !.arrays = Append(@, content)]
NewId(h) == Len(h.arrays) + 1

\* the particle k of the heap, with the contents of its arrays
DerefParticle(h, k) ==
    LET hp == h.particles[k]
    IN  Particle(h.arrays[hp.position], h.arrays[hp.velocity], hp.speeds,
                 h.arrays[hp.personal_best], h.arrays[hp.personal_best_obj], hp.fitness)

DerefParticles(h) == [k \in 1..Len(h.particles) |-> DerefParticle(h, k)]

\* the archive of the heap, with the contents of its arrays
DerefArchive(h) ==
    Archive(h.max_size,
            [e \in 1..Len(h.solutions) |-> h.arrays[h.solutions[e].solution]],
            [e \in 1..Len(h.solutions) |-> h.arrays[h.solutions[e].objectives]],
            h.metadata)

DerefOrNone(h, id) == IF id = 0 THEN None ELSE h.arrays[id]

\* initialize_swarm and _create_particle, line 119: Particle(route.copy(),
\* velocity, speeds, route.copy(), obj_array, fitness), four arrays of its
\* own for every particle, and the two copies of _update_global_best
HeapOfSwarm(eng) ==
    LET n == Len(eng.particles)
        best == ArgMin([k \in 1..n |-> eng.particles[k].fitness])
    IN  [arrays |-> [i \in 1..(4 * n + 2) |->
                       IF i > 4 * n
                       THEN (IF i = 4 * n + 1 THEN eng.global_best ELSE eng.global_best_obj)
                       ELSE LET p == eng.particles[(i + 3) \div 4]
                            IN  CASE i % 4 = 1 -> p.position
                                  [] i % 4 = 2 -> p.velocity
                                  [] i % 4 = 3 -> p.personal_best
                                  [] OTHER -> p.personal_best_obj],
         particles |-> [k \in 1..n |->
                          [position |-> 4 * k - 3, velocity |-> 4 * k - 2,
                           personal_best |-> 4 * k - 1, personal_best_obj |-> 4 * k,
                           speeds |-> eng.particles[k].speeds,
                           fitness |-> eng.particles[k].fitness]],
         max_size |-> eng.archive.max_size,
         solutions |-> <<>>,
         metadata |-> <<>>,
         call |-> eng.call,
         global_best |-> 4 * n + 1,
         global_best_obj |-> 4 * n + 2]

\* iterate, lines 166-178 for particle k, where m is the outcome of the
\* pass: the velocity and obj_arr are new arrays, the position is rewritten
\* in its buffer, and a better position is copied into a new personal best
HeapMoved(h, k, m, better) ==
    LET hp == h.particles[k]
        n == Len(h.arrays)
        written == [h.arrays EXCEPT ![hp.position] = m.particle.position]
    IN  [heap |-> [h EXCEPT
                     !.arrays = written \o <<m.particle.velocity, m.obj>>
                                \o (IF better THEN <<m.particle.position, m.obj>> ELSE <<>>),
                     !.particles[k] =
                         [hp EXCEPT !.velocity = n + 1,
                                    !.personal_best = IF better THEN n + 3 ELSE @,
                                    !.personal_best_obj = IF better THEN n + 4 ELSE @,
                                    !.fitness = m.particle.fitness]],
         obj_arr |-> n + 2,
         land |-> m.land]

HeapJudged(h, k, p, m, ctx) ==
    HeapMoved(h, k, m, IsBetter(m.particle.fitness, ctx.w, p.personal_best_obj))

HeapMove(h, k, p, ctx) ==
    HeapJudged(h, k, p, MoveParticle(p, Leader(DerefArchive(h), ctx.global_best, ctx.w, p),
                                     ctx), ctx)

\* an entry of the archive: the ids of its two arrays, and what the arrays
\* held and which buffer was offered when add accepted them
ArchiveEntry(h, solution, objs, offered_sol, offered_obj) ==
    [solution |-> solution, objectives |-> objs,
     route |-> h.arrays[offered_sol], objective |-> h.arrays[offered_obj],
     source |-> offered_sol]

\* an archive that appends the arrays it is handed
StoredReference(h, sol, obj) ==
    [heap |-> h, entry |-> ArchiveEntry(h, sol, obj, sol, obj)]

\* add, lines 174-175: solution.copy() and objective_values.copy()
StoredCopy(h, sol, obj) ==
    [heap |-> Alloc(Alloc(h, h.arrays[sol]), h.arrays[obj]),
     entry |-> ArchiveEntry(h, NewId(h), NewId(h) + 1, sol, obj)]

\* the record of the call with the contents of the arrays
DerefCall(h, c, sol) ==
    [c EXCEPT !.sol = h.arrays[sol],
              !.front = [e \in 1..Len(c.front) |->
                           <<h.arrays[c.front[e][1].solution], c.front[e][2], c.front[e][3]>>]]

\* archive.add(solution, objective_values, metadata) on the heap: the lists
\* of the archive hold the entries, and add reads the objective arrays
HeapAdded(h, stored, sol, out) ==
    IF out.call.ret
    THEN [stored.heap EXCEPT !.solutions = out.archive.solutions,
                             !.metadata = out.archive.metadata,
                             !.call = DerefCall(stored.heap, out.call, sol)]
    ELSE [h EXCEPT !.call = DerefCall(h, [out.call EXCEPT !.sol = stored.entry], sol)]

HeapAdd(h, sol, obj, meta) ==
    LET stored == StoredCopy(h, sol, obj)
    IN  { HeapAdded(h, stored, sol, out) :
            out \in AddOutcomes(Archive(h.max_size, h.solutions,
                                        DerefArchive(h).objectives, h.metadata),
                                stored.entry, h.arrays[obj], meta) }

\* iterate, lines 179-180
HeapOffered(mv, k) ==
    IF mv.land THEN { mv.heap }
    ELSE HeapAdd(mv.heap, mv.heap.particles[k].position, mv.obj_arr,
                 SomeMeta(<< <<"speeds", mv.heap.particles[k].speeds>> >>))

\* iterate, lines 160-180: the pass of the loop for particle k
HeapPass(h, k, ctx) == HeapOffered(HeapMove(h, k, DerefParticle(h, k), ctx), k)

RECURSIVE HeapParticleLoop(_, _, _)
HeapParticleLoop(k, h, ctx) ==
    IF k = 0 THEN {h}
    ELSE UNION { HeapPass(prev, k, ctx) : prev \in HeapParticleLoop(k - 1, h, ctx) }

\* _update_global_best, lines 150-151: the copies of the personal best
HeapGlobalBest(h, gb, best) ==
    IF gb.replaced
    THEN [Alloc(Alloc(h, h.arrays[h.particles[best].personal_best]),
                h.arrays[h.particles[best].personal_best_obj])
            EXCEPT !.global_best = NewId(h), !.global_best_obj = NewId(h) + 1]
    ELSE h

\* iterate, lines 184-188 for particle k: opp is a new array, and
\* p.position = opp makes it the position of the particle
HeapOpposed(h, k, p, o, opp) ==
    IF o.fitness < p.fitness
    THEN [Alloc(h, opp) EXCEPT !.particles[k].position = NewId(h),
                               !.particles[k].fitness = o.fitness]
    ELSE h

HeapOpposition(h, k, p, opp, ctx) ==
    HeapOpposed(h, k, p, OppositionOf(p, opp, ctx.w, ctx.now), opp)

RECURSIVE HeapOppositionStep(_, _, _)
HeapOppositionStep(h, k, ctx) ==
    IF k = 0 THEN h
    ELSE LET prev == HeapOppositionStep(h, k - 1, ctx)
             p == DerefParticle(prev, k)
         IN  HeapOpposition(prev, k, p, OppositionRoute(p.position, ctx.bounds), ctx)

\* iterate, lines 181-188, after the loop
HeapFinished(h, parts, gb, ctx) ==
    { [heap |-> IF opposed
                THEN HeapOppositionStep(
                         HeapGlobalBest(h, gb, ArgMin([k \in 1..Len(parts) |-> parts[k].fitness])),
                         Len(parts), ctx)
                ELSE HeapGlobalBest(h, gb, ArgMin([k \in 1..Len(parts) |-> parts[k].fitness])),
       stagnation_count |-> gb.stagnation_count,
       opposed |-> opposed] :
        opposed \in OppositionDraws(ctx.cfg, gb.stagnation_count) }

HeapLooped(h, parts, stagnation, ctx) ==
    HeapFinished(h, parts,
                 UpdateGlobalBest(parts, ctx.w, DerefOrNone(h, h.global_best),
                                  DerefOrNone(h, h.global_best_obj), stagnation),
                 ctx)

\* iterate() on the heap
HeapIterateOutcomes(h, stagnation, ctx) ==
    UNION { HeapLooped(after, DerefParticles(after), stagnation, ctx) :
              after \in HeapParticleLoop(Len(h.particles), h, ctx) }

\* the fields of the engine, read through the ids
EngineOfHeap(h, chaos, iter, stagnation, history) ==
    Engine(DerefParticles(h), DerefArchive(h), h.call, DerefOrNone(h, h.global_best),
           DerefOrNone(h, h.global_best_obj), chaos, iter, stagnation, history)

\* the engines whose arrays are followed: two particles, the opposition step
\* from the first stagnant iteration on
BufferSetups ==
    { SmallSetup, [SmallSetup EXCEPT !.ocean = StormOcean],
      [SmallSetup EXCEPT !.w = TimeWeights] }

InitBuffers ==
    /\ \E setup \in BufferSetups : Constructed(setup)
    /\ twin = None
    /\ ga = None
    /\ NoUnit
    /\ NoService

\* initialize_swarm(warm_start)
HeapInitializeSwarm ==
    /\ step = None
    /\ \E warm \in WarmStarts, draw \in SwarmDraws, now \in ClockReads :
         \E out \in { InitializedSwarm(TheEngine, config, weights, origin, destination,
                                       warm, draw, now) } :
             /\ out.raised = ""
             /\ heap' = HeapOfSwarm(out.engine)
             /\ SetEngine(out.engine)
             /\ step' = [op |-> "initialize_swarm", warm_start |-> warm,
                         raised |-> out.raised]
    /\ UNCHANGED <<dom, config, origin, destination, weights, ocean, handler, twin, ga,
                   repair, sorting, serviceVars>>

\* iterate()
HeapIterate ==
    /\ step # None
    /\ heap # None
    /\ iteration < config.max_iterations
    /\ \E r1, r2 \in RandomDraws, now \in ClockReads :
         LET ciw == ChaoticInertiaWeight(config, chaos_value, iteration)
             ctx == Context(config, weights, origin, destination, global_best, ciw,
                            r1, r2, now)
         IN  \E out \in HeapIterateOutcomes(heap, stagnation_count, ctx) :
               /\ heap' = out.heap
               /\ SetEngine(EngineOfHeap(out.heap, ciw.chaos_value, iteration + 1,
                                         out.stagnation_count,
                                         Append(convergence_history,
                                                BestFitness(DerefParticles(out.heap)))))
               /\ step' = [op |-> "iterate", r1 |-> r1, r2 |-> r2,
                           opposed |-> out.opposed, raised |-> ""]
    /\ UNCHANGED <<dom, config, origin, destination, weights, ocean, handler, twin, ga,
                   repair, sorting, serviceVars>>

NextBuffers == HeapInitializeSwarm \/ HeapIterate

SpecBuffers == InitBuffers /\ [][NextBuffers]_vars

----------------------------------------------------------------------------
(* Properties of the archive *)

\* C1: in every reachable state of the archive no entry dominates another
\* entry, in either direction.
ArchiveAntichain ==
    \A i, j \in 1..Len(objectives) : ~dominates(objectives[i], objectives[j])

\* a truncating add that left two different, mutually non-dominated entries
AntichainWitness ==
    /\ call.op = "add" /\ call.ret /\ call.truncated
    /\ \E i, j \in 1..Len(objectives) : objectives[i] # objectives[j]

\* C2: the archive never holds more than max_size entries, and solutions,
\* objectives and metadata have the same length.
ArchiveBound ==
    /\ Len(solutions) <= max_size
    /\ Len(objectives) = Len(solutions)
    /\ Len(metadata) = Len(solutions)

\* an add that truncated the archive down to max_size entries
ArchiveBoundWitness ==
    /\ call.op = "add" /\ call.truncated
    /\ Len(call.front) = max_size + 1
    /\ Len(solutions) = max_size

\* C3: an add whose vector is dominated by an existing entry returns False and
\* leaves solutions, objectives and metadata as they were.
RejectLeavesArchive ==
    [][ (call'.op = "add"
           /\ \E i \in 1..Len(objectives) : dominates(objectives[i], call'.obj))
        => (/\ call'.ret = FALSE
            /\ solutions' = solutions
            /\ objectives' = objectives
            /\ metadata' = metadata) ]_vars

\* a rejected add: the dominating entry is still in the archive
RejectWitness ==
    /\ call.op = "add" /\ ~call.ret
    /\ \E i \in 1..Len(objectives) : dominates(objectives[i], call.obj)

RECURSIVE SurvivorsOf(_, _, _, _)
\* the elements of lst at the indices (up to n) of the vectors of objs that obj
\* does not dominate, in their order
SurvivorsOf(lst, objs, obj, n) ==
    IF n = 0 THEN <<>>
    ELSE IF dominates(obj, objs[n]) THEN SurvivorsOf(lst, objs, obj, n - 1)
    ELSE Append(SurvivorsOf(lst, objs, obj, n - 1), lst[n])

AddReturnsMembership ==
    call.op = "add" =>
        (call.ret <=> \E i \in 1..Len(solutions) :
                         /\ solutions[i] = call.sol
                         /\ objectives[i] = call.obj
                         /\ metadata[i] = MetaOrEmpty(call.meta))

\* entry k of the front holds the minimum or the maximum of some objective
IsBoundary(front, k) ==
    \E m \in DOMAIN front[k][2] :
        \/ \A j \in 1..Len(front) : front[k][2][m] <= front[j][2][m]
        \/ \A j \in 1..Len(front) : front[k][2][m] >= front[j][2][m]

Kept(c) == { c.indices[j] : j \in 1..Len(c.indices) }

DominatesStrictOrder ==
    dom.applied =>
        /\ ~dom.aa
        /\ ~(dom.ab /\ dom.ba)
        /\ (dom.ab /\ dom.bc) => dom.ac

\* dominates evaluated on a chain a, b, c
DominatesWitness == dom.applied /\ dom.ab /\ dom.bc /\ dom.ac /\ ~dom.ba

----------------------------------------------------------------------------
(* Properties of the engine *)

\* the route starts at the origin and ends at the destination of the engine
EndsAtPorts(route) == route[1] = origin /\ route[Len(route)] = destination

\* C8: once initialize_swarm has run, after it and after every later iterate
\* call, the position and the personal_best of every particle start at the
\* engine's origin and end at its destination.
EndpointsPinned ==
    step # None =>
        \A k \in 1..Len(particles) :
            EndsAtPorts(particles[k].position) /\ EndsAtPorts(particles[k].personal_best)

\* the point lies in the search box: origin and destination widened by 10 degrees
InSearchBox(pt) ==
    /\ Min(origin[1], destination[1]) - 10 * Deg <= pt[1]
    /\ pt[1] <= Max(origin[1], destination[1]) + 10 * Deg
    /\ Min(origin[2], destination[2]) - 10 * Deg <= pt[2]
    /\ pt[2] <= Max(origin[2], destination[2]) + 10 * Deg

\* C9: after every iterate call, the opposition step included, every interior
\* waypoint of every particle's position lies inside the search box.
InteriorInSearchBox ==
    (step # None /\ step.op = "iterate") =>
        \A k \in 1..Len(particles) :
            \A r \in 2..(Len(particles[k].position) - 1) :
                InSearchBox(particles[k].position[r])

\* an iterate call has run its opposition step and left an interior waypoint
\* on the edge of the search box, where the clipping put it
InteriorInSearchBoxWitness ==
    /\ step # None /\ step.op = "iterate" /\ step.opposed
    /\ \E k \in 1..Len(particles) :
         \E r \in 2..(Len(particles[k].position) - 1) :
            particles[k].position[r][1] = Min(origin[1], destination[1]) - 10 * Deg

\* C10: with non-negative weights, an iterate call never increases the
\* weighted sum of any particle's personal_best_obj, nor the weighted sum of
\* global_best_obj.
BestNeverWorse ==
    [][(iteration' = iteration + 1 /\ \A m \in 1..Len(weights) : weights[m] >= 0) =>
          /\ \A k \in 1..Len(particles) :
                Dot(weights, particles'[k].personal_best_obj)
                    <= Dot(weights, particles[k].personal_best_obj)
          /\ Dot(weights, global_best_obj') <= Dot(weights, global_best_obj)]_vars

\* a second or later iterate call has replaced a personal best and the global best
BestNeverWorseWitness ==
    /\ step # None /\ step.op = "iterate"
    /\ iteration >= 2
    /\ step.improved # {}
    /\ stagnation_count = 0

----------------------------------------------------------------------------
(* Properties of optimize and of the job                                    *)

\* optimize has returned or raised
OptimizeEnded == task.pc \in {"store", "raised", "done"}

\* C12: optimize always terminates; it runs at most max_iterations
\* iterations, runs no iteration after one at whose end stagnation_count >=
\* stagnation_limit, and the iteration count it returns is the length of
\* convergence_history.
OptimizeTerminates ==
    /\ <>OptimizeEnded
    /\ [](iteration <= config.max_iterations)
    /\ [][iteration' = iteration + 1 =>
             (iteration = 0 \/ stagnation_count < config.stagnation_limit)]_vars
    /\ [](task.result # None =>
             /\ task.result.iterations = Len(task.result.convergence)
             /\ task.result.iterations = iteration)

\* optimize has returned before max_iterations because the swarm stagnated
OptimizeStoppedEarly ==
    /\ task.pc = "store"
    /\ task.result.iterations >= 1
    /\ task.result.iterations < config.max_iterations
    /\ stagnation_count >= config.stagnation_limit

\* C13: with swarm_size >= 1 and max_iterations >= 1 the result optimize
\* returns holds at least one solution.
OptimizeYieldsSolution ==
    (task.result # None /\ config.swarm_size >= 1 /\ config.max_iterations >= 1)
        => Len(task.result.solutions) >= 1

\* C16: a job whose status is completed, failed or cancelled keeps that
\* status, and the status only moves from pending to running and from
\* running to completed, failed or cancelled.
StatusMovesForward ==
    [][/\ is_terminal(job.status) => job'.status = job.status
       /\ job.status = "pending" => job'.status \in {"pending", "running", "cancelled"}
       /\ job.status = "running" => job'.status # "pending"]_vars

\* C17: once a request to cancel the job has been answered while optimize
\* runs, no further iteration runs and the result returned is partial.
CancelStopsOptimize ==
    [][(request.response = 200 /\ ~OptimizeEnded) =>
          /\ iteration' = iteration
          /\ (task'.result # None => task'.result.iterations < config.max_iterations)]_vars

----------------------------------------------------------------------------
(* Properties of initialize_swarm and of what the engine accepts            *)

\* the particles whose position is a route of the warm_start argument
WarmBuilt(parts, warm) ==
    { k \in 1..Len(parts) : \E i \in 1..Len(warm) : parts[k].position = warm[i] }

\* C14: after initialize_swarm, for swarm_size S >= 1 and any warm_start, the
\* swarm holds exactly S particles, at most S // 4 of them built from
\* warm-start routes, and global_best is set.
SwarmInitialized ==
    (step # None /\ step.op = "initialize_swarm" /\ step.raised = ""
        /\ config.swarm_size >= 1) =>
        /\ Len(particles) = config.swarm_size
        /\ Cardinality(WarmBuilt(particles, step.warm_start)) <= config.swarm_size \div 4
        /\ global_best # None

\* initialize_swarm was given more warm-start routes than it takes and has
\* built a particle from one of them
SwarmInitializedWitness ==
    /\ step # None
    /\ step.op = "initialize_swarm"
    /\ Len(step.warm_start) > config.swarm_size \div 4
    /\ Cardinality(WarmBuilt(particles, step.warm_start)) = 1
    /\ Len(particles) = config.swarm_size
    /\ global_best # None

\* C18: when a query of the ocean raises, the evaluator goes on with neutral
\* values: the run is not aborted and no exception leaves the engine.
OceanFaultAbsorbed ==
    (step # None /\ ocean.raises) =>
        /\ step.raised = ""
        /\ Len(particles) = config.swarm_size

\* C19: every objective vector stored in the archive is finite in every
\* component.
ArchiveFinite ==
    \A k \in 1..Len(objectives) : \A c \in 1..Len(objectives[k]) : objectives[k][c] < Inf

\* a configuration the engine should reject: no interior waypoint, an empty
\* swarm or a negative weight
IsInvalidConfig(cfg, w) ==
    \/ cfg.n_waypoints < 1
    \/ cfg.swarm_size < 1
    \/ \E c \in 1..Len(w) : w[c] < 0

\* C20: with an invalid configuration no particle is created, no iteration
\* runs and no exception leaves the engine.
InvalidConfigRejected ==
    (step # None /\ IsInvalidConfig(config, weights)) =>
        /\ step.raised = ""
        /\ Len(particles) = 0
        /\ iteration = 0

----------------------------------------------------------------------------
(* the offers to the archive *)

\* the route has a waypoint in a land cell of the grid
OnLand(route) ==
    \E r \in 1..Len(route) : LandMask(GetGridIndices(route[r][1], route[r][2]))

\* C15: in every HACOPSO iteration a particle's position is offered to the
\* archive exactly when none of its waypoints is on land, in every NSGA-II
\* generation an individual's chromosome is offered exactly when its rank is 0
\* and none of its waypoints is on land, whatever other violations it has;
\* and no route stored in the archive has a waypoint on land.
OfferedIffAtSea ==
    /\ (ga = None /\ step # None /\ step.op = "iterate") =>
          \A k \in 1..Len(step.moved) : (k \in step.offered) <=> ~OnLand(step.moved[k])
    /\ (ga # None /\ ga.step # None /\ ga.step.op = "evolve") =>
          \A k \in 1..Len(ga.population) :
             (k \in ga.step.offered) <=>
                (ga.population[k].rank = 0 /\ ~OnLand(ga.population[k].chromosome))
    /\ \A k \in 1..Len(solutions) : ~OnLand(solutions[k])

\* a violation of check_route other than land
OtherViolation(route, speeds, now) ==
    \E v \in { check_route(route, speeds, now)[k] :
                 k \in 1..Len(check_route(route, speeds, now)) } :
        v.constraint_type # "land"

\* an iteration offered a position that violates a constraint other than
\* land, the archive stored it, and a position on land was withheld
OfferedIffAtSeaWitness ==
    /\ ga = None /\ step # None /\ step.op = "iterate"
    /\ \E k \in step.offered :
          /\ OtherViolation(step.moved[k], particles[k].speeds, WallClock)
          /\ \E n \in 1..Len(solutions) : solutions[n] = step.moved[k]
    /\ \E k \in 1..Len(step.moved) : OnLand(step.moved[k])

----------------------------------------------------------------------------
(* the fuel budget *)

\* the fitness of a route whose only violation is that of the fuel budget
FuelFitness(w, obj, max_fuel) ==
    Fitness(w, obj, calculate_penalty(FuelViolations(max_fuel, obj[1])))

\* C25: when the constraint handler has a fuel budget, the fitness of every
\* particle whose route burns more fuel than the budget includes the fuel
\* penalty, 1e4 times the severity of the excess.
FuelBudgetPenalised ==
    (handler # None /\ handler.max_fuel # NoFuelLimit /\ step # None /\ step.raised = "") =>
        \A k \in 1..Len(particles) :
            LET obj == evaluate(particles[k].position, particles[k].speeds)
            IN  obj[1] > handler.max_fuel =>
                  particles[k].fitness >= FuelFitness(weights, obj, handler.max_fuel)

----------------------------------------------------------------------------
(* the velocity of the endpoints *)

ZeroRow == <<0, 0>>

\* C24: the velocity rows of the origin (row 0) and of the destination (row
\* -1) of every particle are zero from its creation on, and an iteration
\* changes the velocity of interior waypoints only.
VelocityEndpointsZero ==
    \A k \in 1..Len(particles) :
        LET velocity == particles[k].velocity
        IN  Len(velocity) > 0 => velocity[1] = ZeroRow /\ velocity[Len(velocity)] = ZeroRow

----------------------------------------------------------------------------
(* the opposition step *)

\* the fitness the loop of iterate gave particle k, from the position the
\* loop left
MovedFitness(k) ==
    Fitness(weights, evaluate(step.moved[k], particles[k].speeds),
            calculate_penalty(check_route(step.moved[k], particles[k].speeds, WallClock)))

\* the opposition step replaces a position only by an image of strictly
\* smaller fitness
OppositionNeverWorse ==
    \A k \in 1..Len(particles) :
        /\ particles[k].fitness <= MovedFitness(k)
        /\ particles[k].position # step.moved[k] =>
              step.opposed /\ particles[k].fitness < MovedFitness(k)

\* C26: the opposition step of an iteration runs only if the stagnation
\* counter, as the refresh of the global best of that iteration left it, is at
\* least stagnation_limit / 2 (the exact half, also for an odd limit); and a
\* particle's position is only replaced by an image of strictly smaller
\* fitness, so the step never increases a fitness.
OppositionOnlyWhenStagnant ==
    (ga = None /\ step # None /\ step.op = "iterate") =>
        /\ step.opposed => 2 * stagnation_count >= config.stagnation_limit
        /\ OppositionNeverWorse

----------------------------------------------------------------------------
(* the stagnation counter *)

\* C27: the stagnation counter is 0 after initialize_swarm; an iteration
\* that replaces the global best resets it to 0, and any other iteration
\* leaves the global best as it is and adds exactly 1, so the counter is the
\* number of the most recent consecutive iterations without a replacement.
StagnationCounts ==
    /\ []((ga = None /\ step # None /\ step.op = "initialize_swarm" /\ step.raised = "")
            => stagnation_count = 0)
    /\ [][(ga = None /\ step'.op = "iterate") =>
            IF step'.replaced
            THEN stagnation_count' = 0
            ELSE /\ stagnation_count' = stagnation_count + 1
                 /\ global_best' = global_best
                 /\ global_best_obj' = global_best_obj]_vars

\* two iterations in a row left the global best in place after one replaced it
StagnationCountsWitness ==
    /\ ga = None /\ step # None /\ step.op = "iterate"
    /\ ~step.replaced
    /\ stagnation_count = 2
    /\ iteration = 3

----------------------------------------------------------------------------
(* the chaotic inertia weight *)

\* C30: with the default inertia bounds (w_min = 0.4, w_max = 0.9), for every
\* chaos map, chaos state and iteration index of 0..max_iterations,
\* _chaotic_inertia_weight returns a value strictly between 0.3 and 1.0 and
\* leaves the chaos state in [0.01, 0.99].
InertiaInRange ==
    (step # None /\ step.op = "_chaotic_inertia_weight") =>
        /\ (3 * FP) \div 10 < step.inertia
        /\ step.inertia < FP
        /\ FP \div 100 <= chaos_value
        /\ chaos_value <= (99 * FP) \div 100

\* the parts of C30 the code keeps: the lower bound and the chaos state
InertiaAboveFloor ==
    (step # None /\ step.op = "_chaotic_inertia_weight") =>
        /\ (3 * FP) \div 10 < step.inertia
        /\ FP \div 100 <= chaos_value
        /\ chaos_value <= (99 * FP) \div 100

----------------------------------------------------------------------------
(* non_dominated_sort *)

\* the indices of front f of the returned fronts
FrontSet(f) == { sorting.fronts[f][k] : k \in 1..Len(sorting.fronts[f]) }

\* C28: for every input of N objective vectors, non_dominated_sort returns
\* fronts that partition the indices (each index in exactly one front, once,
\* no empty front); the first front is exactly the set of vectors dominated by
\* no other vector; no member of a front dominates a member of the same front;
\* every member of a later front is dominated by a member of the front before.
SortedFronts ==
    (sorting # None /\ sorting.returned) =>
        LET objs == sorting.objectives
            fronts == sorting.fronts
            n == Len(objs)
        IN  /\ \A i \in 1..n :
                  Cardinality({ fk \in { <<f, k>> : f \in 1..Len(fronts), k \in 1..n } :
                                  /\ fk[2] <= Len(fronts[fk[1]])
                                  /\ fronts[fk[1]][fk[2]] = i }) = 1
            /\ \A f \in 1..Len(fronts) :
                  /\ Len(fronts[f]) > 0
                  /\ FrontSet(f) \subseteq 1..n
                  /\ \A a, b \in FrontSet(f) : ~dominates(objs[a], objs[b])
                  /\ f > 1 => \A a \in FrontSet(f) :
                                 \E b \in FrontSet(f - 1) : dominates(objs[b], objs[a])
            /\ n > 0 => FrontSet(1) = { i \in 1..n :
                                          \A j \in 1..n : ~dominates(objs[j], objs[i]) }
            /\ n = 0 => fronts = <<>>

SortedFrontsWitness ==
    /\ sorting # None
    /\ sorting.returned
    /\ Len(sorting.objectives) = SortLen
    /\ Len(sorting.fronts) = 3
    /\ \E f \in 1..3 : Len(sorting.fronts[f]) = 2
    /\ sorting.fronts[1] # <<1>>

----------------------------------------------------------------------------
(* the population of the genetic algorithm *)

\* C29: after initialize_population and after every evolve() the population
\* has exactly population_size individuals (population_size >= tournament_size),
\* every one with chromosome endpoints equal to origin and destination; evolve
\* keeps population_size distinct members of the combined parents and
\* offspring, front by front: no member of a higher-numbered front is kept
\* while a member of a lower-numbered front is discarded.
PopulationKept ==
    (ga # None /\ ga.step # None) =>
        LET size == ga.config.population_size
            kept == { ga.step.kept[k] : k \in 1..Len(ga.step.kept) }
        IN  /\ size >= ga.config.tournament_size
            /\ Len(ga.population) = size
            /\ \A k \in 1..Len(ga.population) :
                  /\ ga.population[k].chromosome[1] = ga.origin
                  /\ ga.population[k].chromosome[Len(ga.population[k].chromosome)]
                        = ga.destination
            /\ ga.step.op = "evolve" =>
                  /\ Len(ga.step.kept) = size
                  /\ Cardinality(kept) = size
                  /\ kept \subseteq 1..(2 * size)
                  /\ \A i \in kept, j \in (1..(2 * size)) \ kept :
                        RankOf(ga.step.fronts, j, 1) >= RankOf(ga.step.fronts, i, 1)

\* a generation that cuts a front: an offspring is kept, a parent is
\* discarded, and a member of the last kept front is discarded
PopulationKeptWitness ==
    /\ ga # None
    /\ ga.step # None
    /\ ga.step.op = "evolve"
    /\ ga.generation = 2
    /\ LET size == ga.config.population_size
           kept == { ga.step.kept[k] : k \in 1..Len(ga.step.kept) }
       IN  /\ \E i \in kept : i > size
           /\ \E j \in (1..size) \ kept : TRUE
           /\ \E i \in kept, j \in (1..(2 * size)) \ kept :
                 RankOf(ga.step.fronts, j, 1) = RankOf(ga.step.fronts, i, 1)
           /\ Len(ga.step.fronts) >= 2

----------------------------------------------------------------------------
(* repair_route *)

\* the eight compass directions: N, S, E, W, NE, NW, SE, SW
CompassDirections ==
    { <<1, 0>>, <<-1, 0>>, <<0, 1>>, <<0, -1>>, <<1, 1>>, <<1, -1>>, <<-1, 1>>, <<-1, -1>> }

\* a displacement of the row by one of the four deltas in direction dirs is off land
WaterWithin(point, dirs) ==
    \E d \in 1..Len(RepairDeltas), dir \in dirs :
        LET new == Displaced(point, RepairDeltas[d], dir)
        IN  ~is_land(new[1], new[2])

\* C22: repair_route moves every land-violating interior waypoint to a
\* non-land coordinate whenever a displacement of 0.1, 0.2, 0.5 or 1.0 degrees
\* in one of the eight compass directions from it is not on land.
RepairFindsWater ==
    (repair # None /\ repair.returned # None) =>
        \A r \in 2..(Len(repair.input) - 1) :
            (/\ is_land(repair.input[r][1], repair.input[r][2])
             /\ WaterWithin(repair.input[r], CompassDirections))
            => ~is_land(repair.returned[r][1], repair.returned[r][2])

\* what the code does: the six directions of its list are searched, and the
\* first displacement off land in the order of the search is taken
RepairFindsWaterOfSix ==
    (repair # None /\ repair.returned # None) =>
        \A r \in 2..(Len(repair.input) - 1) :
            is_land(repair.input[r][1], repair.input[r][2]) =>
                /\ repair.returned[r] = Perturb(repair.input[r], 1, 1)
                /\ WaterWithin(repair.input[r],
                               { RepairDirections[k] : k \in 1..Len(RepairDirections) })
                     => ~is_land(repair.returned[r][1], repair.returned[r][2])

\* C23: repair_route never changes the first or the last waypoint, never
\* changes a waypoint that is not on land, leaves the caller's array
\* unmodified, and begins at most max_iterations passes; when no waypoint is
\* on land the returned route equals the input.
RepairFrame ==
    (repair # None /\ repair.returned # None) =>
        LET input == repair.input
            out == repair.returned
        IN  /\ Len(out) = Len(input)
            /\ out[1] = input[1]
            /\ out[Len(out)] = input[Len(input)]
            /\ \A r \in 1..Len(input) : ~is_land(input[r][1], input[r][2]) => out[r] = input[r]
            /\ repair.route = input
            /\ repair.passes <= repair.max_iterations
            /\ ~OnLand(input) => out = input

\* a call with the default max_iterations that moves a waypoint off land,
\* leaves another on land for all ten passes, and has an endpoint on land
RepairFrameWitness ==
    /\ repair # None
    /\ repair.returned # None
    /\ repair.max_iterations = DefaultRepairIterations
    /\ repair.passes = DefaultRepairIterations
    /\ Len(repair.input) = RepairRows
    /\ is_land(repair.input[1][1], repair.input[1][2])
    /\ repair.returned[2] # repair.input[2]
    /\ ~is_land(repair.returned[2][1], repair.returned[2][2])
    /\ is_land(repair.returned[3][1], repair.returned[3][2])
    /\ ~is_land(repair.input[4][1], repair.input[4][2])

----------------------------------------------------------------------------
(* the arrays of the archive *)

\* C21: an archive entry is an independent copy: after add has accepted a
\* route and its objective vector, the stored route and the stored objective
\* vector are what they were when they were accepted, whatever iterate and
\* the opposition step have since written into the arrays of the particles.
ArchiveEntriesKept ==
    heap # None =>
        \A e \in 1..Len(heap.solutions) :
            /\ heap.arrays[heap.solutions[e].solution] = heap.solutions[e].route
            /\ heap.arrays[heap.solutions[e].objectives] = heap.solutions[e].objective

\* an entry whose offered buffer has since been rewritten in place, after
\* an opposition step has replaced a position
ArchiveEntriesKeptWitness ==
    /\ heap # None
    /\ iteration >= 2
    /\ step.op = "iterate"
    /\ step.opposed
    /\ \E k \in 1..Len(heap.particles) : heap.particles[k].position > 4 * Len(heap.particles)
    /\ \E e \in 1..Len(heap.solutions) :
          /\ heap.arrays[heap.solutions[e].source] # heap.solutions[e].route
          /\ heap.arrays[heap.solutions[e].solution] = heap.solutions[e].route
====
